---- MODULE Spec2Model ----
(***************************************************************************)
(* Verification model of the bountyagents task service                     *)
(* (task/src/services/tasks.ts over the TaskDb repository) and of the      *)
(* AgentEscrow ledger it reads.  Every request handler is a process that   *)
(* advances from one awaited call (database read or write, ledger read,    *)
(* signer call) to the next, so that concurrent requests interleave        *)
(* exactly at the await points of the code.                                *)
(***************************************************************************)
EXTENDS Integers, Sequences, FiniteSets, TLC

\* ------------------------------------------------------------------------
\* Value domains
\* ------------------------------------------------------------------------

\* null / undefined of the TypeScript code
NULL == "null"

\* null in the place of a value that the model writes as a tuple: a digit
\* string, a token identifier, a signature
NONE == << >>

ZERO_ADDRESS == "0x0"

\* account addresses in checksum form (owner candidates, workers, callers)
Addr == {"0xA", "0xB"}

\* the escrow contract and the administrative signer configured for it
ContractAddress == "0xCC"
AdminSigner == "0xAD"

\* ERC20 token addresses in checksum form
TokenAddr == {"0xT1", "0xT2"}

\* the network the service accepts deposits on (config.depositNetwork)
DepositNetwork == "base"

TaskIds == {"t1"}

\* the number of response ids that workers use
MaxResponses == 1

RespIds == { <<"r1", "r2", "r3">>[i] : i \in 1 .. MaxResponses }

Procs == {"p1", "p2"}

\* getAddress of viem: maps every spelling of an address to its checksum form
normalizeAddress(a) ==
  CASE a = "0xa" -> "0xA"
    [] a = "0xb" -> "0xB"
    [] a = "0xt1" -> "0xT1"
    [] a = "0xt2" -> "0xT2"
    [] a = "0xcc" -> "0xCC"
    [] OTHER -> a

\* chain-qualified token identifiers "<network>:<address>" as the pair of
\* the text before and after the colon
TokenIdentifiers == { <<"base", "0xt1">>, <<"eth", "0xt1">> }

parseTokenIdentifier(token) ==
  [network |-> token[1], address |-> normalizeAddress(token[2])]

\* decimal strings as sequences of digits, most significant first
RECURSIVE BigInt(_)
BigInt(s) ==
  IF Len(s) = 0 THEN 0
  ELSE 10 * BigInt(SubSeq(s, 1, Len(s) - 1)) + s[Len(s)]

ZeroPrice == <<0>>

PriceStrings == { <<9, 5>>, <<0, 9, 5>>, <<1, 9, 0>> }

\* keccak256 over the bytes of the task id: an injective tagging of the id
taskDepositKey(taskId) == <<"keccak256", taskId>>

Keys == { taskDepositKey(t) : t \in TaskIds }

\* ------------------------------------------------------------------------
\* Escrow ledger (contracts/src/AgentEscrow.sol)
\* ------------------------------------------------------------------------

BPS_DENOMINATOR == 10000

\* fee the escrow is deployed with (5%)
DeployedFeeBps == 500

\* gross amounts a depositor may hand to deposit()
DepositAmounts == {100}

\* the value of deposits[key] for a key nobody deposited to
EmptyDeposit ==
  [owner |-> ZERO_ADDRESS, token |-> ZERO_ADDRESS, amountLocked |-> 0, released |-> FALSE]

\* a signature is determined by the signing account and the signed content
Sign(signer, content) == <<"sig", signer, content>>

SignerOf(signature) == signature[2]

SignedBy(signature) == signature[3]

toEthSignedMessageHash(hash) == <<"x19Ethereum Signed Message:32", hash>>

withdrawDigest(key, ownerAddress, token, amount) ==
  toEthSignedMessageHash(<<"WITHDRAW", ContractAddress, key, ownerAddress, token, amount>>)

settleDigest(key, ownerAddress, token, recipient, amount) ==
  toEthSignedMessageHash(<<"SETTLE", ContractAddress, key, ownerAddress, token, recipient, amount>>)

\* ecrecover that does not look at the digest
recoverAnyDigest(digest, signature) ==
  IF signature # NONE THEN SignerOf(signature) ELSE ZERO_ADDRESS

\* ecrecover: the account whose signature over digest this is, or the zero
\* address when the signature covers something else
recover(digest, signature) ==
  IF signature # NONE /\ SignedBy(signature) = digest THEN SignerOf(signature)
  ELSE ZERO_ADDRESS

\* off-chain builder of the withdraw authorization (task/src/withdraw.ts)
buildWithdrawDataHash(contractAddress, key, owner, token, amount) ==
  <<"WITHDRAW", normalizeAddress(contractAddress), key, normalizeAddress(owner),
    normalizeAddress(token), amount>>

signWithdrawAuthorizationByOwner(key, owner, token, amount) ==
  Sign(owner,
       toEthSignedMessageHash(buildWithdrawDataHash(ContractAddress, key, owner, token, amount)))

signWithdrawAuthorization(key, owner, token, amount) ==
  Sign(AdminSigner,
       toEthSignedMessageHash(buildWithdrawDataHash(ContractAddress, key, owner, token, amount)))

\* the settle pre-image with the worker put before the token
buildSettleDataHashWorkerFirst(contractAddress, key, owner, token, worker, amount) ==
  <<"SETTLE", normalizeAddress(contractAddress), key, normalizeAddress(owner),
    normalizeAddress(worker), normalizeAddress(token), amount>>

\* off-chain builder of the settle authorization (plugin/src/signers.ts)
buildSettleDataHash(contractAddress, key, owner, token, worker, amount) ==
  <<"SETTLE", normalizeAddress(contractAddress), key, normalizeAddress(owner),
    normalizeAddress(token), normalizeAddress(worker), amount>>

\* signDigest of the plugin's signer: the EIP-191 signature of the account
\* over the raw bytes of the hash
signDigest(account, digest) == Sign(account, toEthSignedMessageHash(digest))

\* ------------------------------------------------------------------------
\* Request signatures (task/src/signature.ts, task/src/crypto.ts)
\* ------------------------------------------------------------------------

taskSignaturePayload(input) ==
  [kind |-> "task:create", id |-> input.id]

taskFundingSignaturePayload(input) ==
  [kind |-> "task:fund", taskId |-> input.taskId, price |-> input.price, token |-> input.token]

responseSignaturePayload(input) ==
  [kind |-> "task:response", taskId |-> input.taskId, id |-> input.id]

decisionSignaturePayload(input) ==
  [kind |-> "task:decision", responseId |-> input.responseId,
   workerAddress |-> input.workerAddress, price |-> input.price, status |-> input.status,
   encryptedSettlement |-> input.encryptedSettlement,
   settlementSignature |-> input.settlementSignature]

taskCancelPayloadFundKind(input) ==
  [kind |-> "task:fund", taskId |-> input.taskId]

taskCancelSignaturePayload(input) ==
  [kind |-> "task:cancel", taskId |-> input.taskId]

taskSettleSignaturePayload(input) ==
  [kind |-> "task:settle", taskId |-> input.taskId, responseId |-> input.responseId,
   workerAddress |-> input.workerAddress]

taskResponsesQuerySignaturePayload(input) ==
  [kind |-> "task:response:query", taskId |-> input.taskId,
   ownerAddress |-> input.ownerAddress, workerAddress |-> input.workerAddress,
   pageSize |-> input.pageSize, pageNum |-> input.pageNum]

workerResponsesQuerySignaturePayload(input) ==
  [kind |-> "worker:response:query", workerAddress |-> input.workerAddress,
   taskId |-> input.taskId, pageSize |-> input.pageSize, pageNum |-> input.pageNum]

\* true iff the signature recovers to the claimed address over this message
verifyDetachedSignature(address, message, signature) ==
  /\ SignedBy(signature) = message
  /\ SignerOf(signature) = normalizeAddress(address)

\* ------------------------------------------------------------------------
\* State
\* ------------------------------------------------------------------------

VARIABLES
  tasks,      \* tasks table: task id -> TaskRecord, NoTask when there is no row
  responses,  \* responses table: response id -> ResponseRecord, or NoResponse
  deposits,   \* AgentEscrow.deposits: key -> TaskDeposit
  proc,       \* per request slot: the handler it runs and where it stands
  last,       \* the call whose reply is being delivered, or NoCall
  serviceFeeBps,  \* AgentEscrow.serviceFeeBps
  balanceOf,  \* token -> what the token's balanceOf holds for the escrow
  backendTasks  \* tasks table of the bearer-token backend: task id -> row

vars == <<tasks, responses, deposits, proc, last, serviceFeeBps, balanceOf, backendTasks>>

\* ids that uuidv4 gives to the tasks posted to the bearer-token backend
BackendTaskIds == {"b1"}

\* what SELECT * FROM tasks WHERE id = ? gives for an id without a row, and
\* the columns of a row that are NULL
NoRow ==
  [status |-> NULL, posterAgentId |-> NULL, posterAddress |-> NULL,
   workerAgentId |-> NULL, workerAddress |-> NULL, acceptedAt |-> NULL,
   completedAt |-> NULL, completionProof |-> NULL, txHash |-> NULL, verifiedAt |-> NULL]

\* the backend's database when it is opened
EmptyBackend == backendTasks = [id \in BackendTaskIds |-> NoRow]

\* the escrow as the test deploys it, before any deposit
Deployed ==
  /\ serviceFeeBps = DeployedFeeBps
  /\ balanceOf = [token \in TokenAddr |-> 0]

\* what getTaskById and getResponseById give for an id without a row
NoTask ==
  [id |-> NULL, owner |-> NULL, status |-> NULL, price |-> NONE, token |-> NONE,
   withdraw_signature |-> NONE]

NoResponse ==
  [id |-> NULL, task_id |-> NULL, worker |-> NULL, status |-> NULL, settlement |-> NULL,
   settlement_signature |-> NONE]

IsNull(row) == row.status = NULL

NoReq == [kind |-> NULL]

\* fields of a request that the handler returned without reading
Unread == "unread"

\* the frame of a running handler: where it stands, its request, and what it
\* has read so far
Frame(pc, req, task, response, onChain, withdrawSignature) ==
  [pc |-> pc, req |-> req, task |-> task, response |-> response, onChain |-> onChain,
   withdrawSignature |-> withdrawSignature]

Idle == Frame("idle", NoReq, NoTask, NoResponse, EmptyDeposit, NONE)

\* a handler that has read nothing yet
Called(pc, req) == Frame(pc, req, NoTask, NoResponse, EmptyDeposit, NONE)

\* value of last while no reply is being delivered
NoCall ==
  [op |-> NULL, result |-> NULL, req |-> NoReq, task |-> NoTask,
   response |-> NoResponse, onChain |-> EmptyDeposit, rows |-> {},
   events |-> << >>, transfers |-> << >>]

Init ==
  /\ tasks = [t \in TaskIds |-> NoTask]
  /\ responses = [r \in RespIds |-> NoResponse]
  /\ deposits = [k \in Keys |-> EmptyDeposit]
  /\ proc = [p \in Procs |-> Idle]
  /\ last = NoCall
  /\ Deployed
  /\ EmptyBackend

\* a new request is served in the first slot that is free
FreeSlot == IF proc["p1"].pc = "idle" THEN "p1" ELSE "p2"

\* a request slot that can take a new request
Ready(p) == p = FreeSlot /\ proc[p].pc = "idle" /\ last.op = NULL

\* a running handler that can take its next step
At(p, pc) == proc[p].pc = pc /\ last.op = NULL

\* the handler of p returns: the caller sees result (a ServiceError code,
\* "ok", or the name of an exception that is not a ServiceError); f is the
\* frame the handler returns from
Return(p, op, f, result) ==
  /\ proc' = [proc EXCEPT ![p] = Idle]
  /\ last' = [op |-> op, result |-> result, req |-> f.req, task |-> f.task,
              response |-> f.response, onChain |-> f.onChain, rows |-> {},
              events |-> << >>, transfers |-> << >>]

\* the handler of p returns a list of response records
ReturnRows(p, op, f, rows) ==
  /\ proc' = [proc EXCEPT ![p] = Idle]
  /\ last' = [op |-> op, result |-> "ok", req |-> f.req, task |-> f.task,
              response |-> f.response, onChain |-> f.onChain, rows |-> rows,
              events |-> << >>, transfers |-> << >>]

\* the handler of p goes on to its next awaited call
Goto(p, f) ==
  /\ proc' = [proc EXCEPT ![p] = f]
  /\ last' = NoCall

\* the reply of the call that returned reaches its caller
Reply ==
  /\ last.op # NULL
  /\ last' = NoCall
  /\ UNCHANGED <<tasks, responses, deposits, proc, serviceFeeBps, balanceOf, backendTasks>>

\* ------------------------------------------------------------------------
\* TaskDb (packages/task-db): every method is one SQL statement
\* ------------------------------------------------------------------------

dbCreateTask(tbl, input) ==
  [tbl EXCEPT ![input.id] =
     [id |-> input.id, owner |-> input.owner, status |-> input.status,
      price |-> input.price, token |-> input.token, withdraw_signature |-> NONE]]

dbUpdateTaskStatus(tbl, id, status) ==
  IF IsNull(tbl[id]) THEN tbl ELSE [tbl EXCEPT ![id].status = status]

dbMarkTaskFunded(tbl, taskId, price, token) ==
  IF IsNull(tbl[taskId]) THEN tbl
  ELSE [tbl EXCEPT ![taskId].price = price, ![taskId].token = token,
                   ![taskId].status = "active"]

dbStoreWithdrawSignature(tbl, taskId, signature) ==
  IF IsNull(tbl[taskId]) THEN tbl ELSE [tbl EXCEPT ![taskId].withdraw_signature = signature]

dbCreateResponse(tbl, input) ==
  [tbl EXCEPT ![input.id] =
     [id |-> input.id, task_id |-> input.task_id, worker |-> input.worker,
      status |-> "pending", settlement |-> NULL, settlement_signature |-> NONE]]

normalizePagination(pageSize, pageNum) ==
  LET limit == IF pageSize > 200 THEN 200 ELSE IF pageSize < 1 THEN 1 ELSE pageSize
      safePage == IF pageNum < 0 THEN 0 ELSE pageNum
  IN [limit |-> limit, offset |-> safePage * limit]

\* the rows of one page; the order of the rows within a page is left out, and
\* a table holds fewer rows than the smallest page a request can ask for
PageOf(rows, pageSize, pageNum) ==
  LET page == normalizePagination(pageSize, pageNum)
  IN IF page.offset = 0 /\ Cardinality(rows) <= page.limit THEN rows ELSE {}

dbListResponsesForTaskPaginated(tbl, taskId, options) ==
  PageOf({ tbl[r] : r \in { q \in RespIds :
                              /\ ~IsNull(tbl[q])
                              /\ tbl[q].task_id = taskId
                              /\ options.worker = NULL \/ tbl[q].worker = options.worker } },
         options.pageSize, options.pageNum)

dbListResponsesByWorker(tbl, worker, options) ==
  PageOf({ tbl[r] : r \in { q \in RespIds :
                              /\ ~IsNull(tbl[q])
                              /\ tbl[q].worker = worker
                              /\ options.taskId = NULL \/ tbl[q].task_id = options.taskId } },
         options.pageSize, options.pageNum)

\* updateResponseStatus as an UPDATE of the status column alone
dbUpdateResponseStatusOnly(tbl, responseId, status, settlement, settlementSignature) ==
  IF IsNull(tbl[responseId]) THEN tbl ELSE [tbl EXCEPT ![responseId].status = status]

dbUpdateResponseStatus(tbl, responseId, status, settlement, settlementSignature) ==
  IF IsNull(tbl[responseId]) THEN tbl
  ELSE [tbl EXCEPT ![responseId].status = status,
                   ![responseId].settlement = settlement,
                   ![responseId].settlement_signature = settlementSignature]

\* ------------------------------------------------------------------------
\* Requests.  The account that posts tasks is 0xA and the account that
\* answers them is 0xB; each of them also sends the requests of the other
\* role, and requests signed by the wrong key.
\* ------------------------------------------------------------------------

OwnerAccount == "0xA"
WorkerAccount == "0xB"

CreateTaskRequest(id, ownerAddress, signer) ==
  [id |-> id, ownerAddress |-> ownerAddress,
   signature |-> Sign(signer, taskSignaturePayload([id |-> id]))]

CreateTaskRequests ==
  { CreateTaskRequest(id, OwnerAccount, signer) : id \in TaskIds, signer \in Addr }

TaskFundingRequest(taskId, ownerAddress, price, token, signer) ==
  [taskId |-> taskId, ownerAddress |-> ownerAddress, price |-> price, token |-> token,
   signature |-> Sign(signer, taskFundingSignaturePayload(
                                [taskId |-> taskId, price |-> price, token |-> token]))]

TaskFundingRequests ==
  { TaskFundingRequest(t, OwnerAccount, price, <<"base", "0xt1">>, OwnerAccount) :
      t \in TaskIds, price \in PriceStrings \cup {ZeroPrice} }
  \cup { TaskFundingRequest(t, OwnerAccount, <<9, 5>>, token, OwnerAccount) :
           t \in TaskIds, token \in TokenIdentifiers }
  \cup { TaskFundingRequest(t, a, <<9, 5>>, <<"base", "0xt1">>, WorkerAccount) :
           t \in TaskIds, a \in Addr }

SubmitResponseRequest(taskId, id, workerAddress, signer) ==
  [taskId |-> taskId, id |-> id, workerAddress |-> workerAddress,
   signature |-> Sign(signer, responseSignaturePayload([taskId |-> taskId, id |-> id]))]

SubmitResponseRequests ==
  { SubmitResponseRequest(t, id, WorkerAccount, signer) :
      t \in TaskIds, id \in RespIds, signer \in Addr }

TaskCancelRequest(taskId, ownerAddress, signer) ==
  [taskId |-> taskId, ownerAddress |-> ownerAddress,
   signature |-> Sign(signer, taskCancelSignaturePayload([taskId |-> taskId]))]

TaskCancelRequests ==
  { TaskCancelRequest(t, OwnerAccount, OwnerAccount) : t \in TaskIds }
  \cup { TaskCancelRequest(t, a, WorkerAccount) : t \in TaskIds, a \in Addr }

TaskSettleRequest(taskId, responseId, workerAddress, signer) ==
  [taskId |-> taskId, responseId |-> responseId, workerAddress |-> workerAddress,
   signature |-> Sign(signer, taskSettleSignaturePayload(
                                [taskId |-> taskId, responseId |-> responseId,
                                 workerAddress |-> workerAddress]))]

TaskSettleRequests ==
  { TaskSettleRequest(t, r, WorkerAccount, WorkerAccount) : t \in TaskIds, r \in RespIds }
  \cup { TaskSettleRequest(t, r, OwnerAccount, OwnerAccount) : t \in TaskIds, r \in RespIds }

\* pageSize and pageNum as taskResponsesQuerySchema fills them in by default
DefaultPageSize == 50
DefaultPageNum == 0

TaskResponsesQueryRequest(taskId, ownerAddress, workerAddress, signer) ==
  LET input == [taskId |-> taskId, ownerAddress |-> ownerAddress,
                workerAddress |-> workerAddress, pageSize |-> DefaultPageSize,
                pageNum |-> DefaultPageNum]
  IN [taskId |-> taskId, ownerAddress |-> ownerAddress, workerAddress |-> workerAddress,
      pageSize |-> DefaultPageSize, pageNum |-> DefaultPageNum,
      signature |-> Sign(signer, taskResponsesQuerySignaturePayload(input))]

TaskResponsesQueryRequests ==
  { TaskResponsesQueryRequest(t, OwnerAccount, w, OwnerAccount) :
      t \in TaskIds, w \in {NULL, WorkerAccount} }
  \cup { TaskResponsesQueryRequest(t, a, NULL, WorkerAccount) : t \in TaskIds, a \in Addr }

WorkerResponsesQueryRequest(workerAddress, taskId, signer) ==
  LET input == [workerAddress |-> workerAddress, taskId |-> taskId,
                pageSize |-> DefaultPageSize, pageNum |-> DefaultPageNum]
  IN [workerAddress |-> workerAddress, taskId |-> taskId,
      pageSize |-> DefaultPageSize, pageNum |-> DefaultPageNum,
      signature |-> Sign(signer, workerResponsesQuerySignaturePayload(input))]

WorkerResponsesQueryRequests ==
  { WorkerResponsesQueryRequest(WorkerAccount, t, WorkerAccount) : t \in {NULL} \cup TaskIds }
  \cup { WorkerResponsesQueryRequest(WorkerAccount, NULL, OwnerAccount) }

\* ------------------------------------------------------------------------
\* createTask
\* ------------------------------------------------------------------------

CreateTask(p) ==
  /\ Ready(p)
  /\ \E req \in CreateTaskRequests :
       LET f == Called("create", req)
       IN IF ~verifyDetachedSignature(req.ownerAddress, taskSignaturePayload(req), req.signature)
          THEN Return(p, "createTask", f, "unauthorized") /\ UNCHANGED tasks
          ELSE IF ~IsNull(tasks[req.id])
          THEN \* the INSERT violates the primary key; the driver's error escapes
               Return(p, "createTask", f, "db_error") /\ UNCHANGED tasks
          ELSE /\ tasks' = dbCreateTask(tasks, [id |-> req.id,
                                                 owner |-> normalizeAddress(req.ownerAddress),
                                                 status |-> "draft", price |-> ZeroPrice,
                                                 token |-> NONE])
               /\ Return(p, "createTask", f, "ok")
  /\ UNCHANGED <<responses, deposits, serviceFeeBps, balanceOf, backendTasks>>

\* ------------------------------------------------------------------------
\* fundTask
\* ------------------------------------------------------------------------

\* taskFundingSchema: the price is a digit string denoting a positive integer
taskFundingSchema(req) == BigInt(req.price) > 0

\* the checks on the task row without the check of its status
FundTaskChecksNoStatus(req, task) ==
  IF ~verifyDetachedSignature(req.ownerAddress, taskFundingSignaturePayload(req), req.signature)
  THEN "unauthorized"
  ELSE IF IsNull(task) THEN "not_found"
  ELSE IF normalizeAddress(req.ownerAddress) # task.owner THEN "forbidden"
  ELSE "pass"

\* fundTask from the signature check to the owner check, on the row read
\* the checks of fundTask without the comparison of the owner
FundTaskChecksNoOwner(req, task) ==
  IF ~verifyDetachedSignature(req.ownerAddress, taskFundingSignaturePayload(req), req.signature)
  THEN "unauthorized"
  ELSE IF IsNull(task) THEN "not_found"
  ELSE IF task.status = "finished" \/ task.status = "closed" THEN "conflict"
  ELSE "pass"

FundTaskChecks(req, task) ==
  IF ~verifyDetachedSignature(req.ownerAddress, taskFundingSignaturePayload(req), req.signature)
  THEN "unauthorized"
  ELSE IF IsNull(task) THEN "not_found"
  ELSE IF task.status = "finished" \/ task.status = "closed" THEN "conflict"
  ELSE IF normalizeAddress(req.ownerAddress) # task.owner THEN "forbidden"
  ELSE "pass"

\* the checks on the ledger entry without the comparison of the amounts
FundDepositChecksNoAmount(req, onChain) ==
  IF onChain.owner = ZERO_ADDRESS THEN "invalid_request"
  ELSE IF onChain.released THEN "conflict"
  ELSE IF normalizeAddress(onChain.owner) # normalizeAddress(req.ownerAddress)
  THEN "invalid_request"
  ELSE IF parseTokenIdentifier(req.token).network # DepositNetwork THEN "invalid_request"
  ELSE IF normalizeAddress(onChain.token) # parseTokenIdentifier(req.token).address
  THEN "invalid_request"
  ELSE "pass"

\* the checks on the ledger entry without the comparison of the tokens
FundDepositChecksNoToken(req, onChain) ==
  IF onChain.owner = ZERO_ADDRESS THEN "invalid_request"
  ELSE IF onChain.released THEN "conflict"
  ELSE IF normalizeAddress(onChain.owner) # normalizeAddress(req.ownerAddress)
  THEN "invalid_request"
  ELSE IF parseTokenIdentifier(req.token).network # DepositNetwork THEN "invalid_request"
  ELSE IF onChain.amountLocked # BigInt(req.price) THEN "invalid_request"
  ELSE "pass"

\* fundTask from the ledger read to the amount check, on the entry read
\* the ledger checks of fundTask without the test of the released flag
FundDepositChecksNoReleased(req, onChain) ==
  IF onChain.owner = ZERO_ADDRESS THEN "invalid_request"
  ELSE IF normalizeAddress(onChain.owner) # normalizeAddress(req.ownerAddress)
  THEN "invalid_request"
  ELSE IF parseTokenIdentifier(req.token).network # DepositNetwork THEN "invalid_request"
  ELSE IF normalizeAddress(onChain.token) # parseTokenIdentifier(req.token).address
  THEN "invalid_request"
  ELSE IF BigInt(req.price) <= 0 THEN "invalid_request"
  ELSE IF onChain.amountLocked # BigInt(req.price) THEN "invalid_request"
  ELSE "pass"

FundDepositChecks(req, onChain) ==
  IF onChain.owner = ZERO_ADDRESS THEN "invalid_request"
  ELSE IF onChain.released THEN "conflict"
  ELSE IF normalizeAddress(onChain.owner) # normalizeAddress(req.ownerAddress)
  THEN "invalid_request"
  ELSE IF parseTokenIdentifier(req.token).network # DepositNetwork THEN "invalid_request"
  ELSE IF normalizeAddress(onChain.token) # parseTokenIdentifier(req.token).address
  THEN "invalid_request"
  ELSE IF BigInt(req.price) <= 0 THEN "invalid_request"
  ELSE IF onChain.amountLocked # BigInt(req.price) THEN "invalid_request"
  ELSE "pass"

FundStart(p) ==
  /\ Ready(p)
  /\ \E req \in TaskFundingRequests :
       LET task == tasks[req.taskId]
           result == FundTaskChecks(req, task)
       IN IF ~taskFundingSchema(req)
          THEN \* the ZodError reaches the error handler of the app
               Return(p, "fundTask", Called("fund", req), "invalid_request")
          ELSE IF result = "unauthorized"
          THEN \* thrown before getTaskById is called
               Return(p, "fundTask", Called("fund", req), result)
          ELSE IF result # "pass"
          THEN Return(p, "fundTask", [Called("fund", req) EXCEPT !.task = task], result)
          ELSE Goto(p, [Called("fund_deposit", req) EXCEPT !.task = task])
  /\ UNCHANGED <<tasks, responses, deposits, serviceFeeBps, balanceOf, backendTasks>>

\* fundTask that records the funding before it compares the ledger entry
FundReadDepositAfterWrite(p) ==
  /\ At(p, "fund_deposit")
  /\ LET req == proc[p].req
         onChain == deposits[taskDepositKey(req.taskId)]
         f == [proc[p] EXCEPT !.pc = "fund_write", !.onChain = onChain]
         result == FundDepositChecks(req, onChain)
     IN /\ tasks' = dbMarkTaskFunded(tasks, req.taskId, req.price, req.token)
        /\ Return(p, "fundTask", f, IF result # "pass" THEN result ELSE "ok")
  /\ UNCHANGED <<responses, deposits, serviceFeeBps, balanceOf, backendTasks>>

FundReadDeposit(p) ==
  /\ At(p, "fund_deposit")
  /\ LET req == proc[p].req
         onChain == deposits[taskDepositKey(req.taskId)]
         f == [proc[p] EXCEPT !.pc = "fund_write", !.onChain = onChain]
         result == FundDepositChecks(req, onChain)
     IN IF result # "pass" THEN Return(p, "fundTask", f, result) ELSE Goto(p, f)
  /\ UNCHANGED <<tasks, responses, deposits, serviceFeeBps, balanceOf, backendTasks>>

FundWrite(p) ==
  /\ At(p, "fund_write")
  /\ LET req == proc[p].req
     IN /\ tasks' = dbMarkTaskFunded(tasks, req.taskId, req.price, req.token)
        /\ Return(p, "fundTask", proc[p],
                  IF IsNull(tasks[req.taskId]) THEN "internal_error" ELSE "ok")
  /\ UNCHANGED <<responses, deposits, serviceFeeBps, balanceOf, backendTasks>>

\* ------------------------------------------------------------------------
\* submitTaskResponse
\* ------------------------------------------------------------------------

\* submitTaskResponse without the status check of its parent task
SubmitChecksNoStatus(req, task) ==
  IF IsNull(task) THEN "not_found"
  ELSE IF ~verifyDetachedSignature(req.workerAddress, responseSignaturePayload(req),
                                   req.signature)
  THEN "unauthorized"
  ELSE "pass"

SubmitChecks(req, task) ==
  IF IsNull(task) THEN "not_found"
  ELSE IF task.status # "active" THEN "conflict"
  ELSE IF ~verifyDetachedSignature(req.workerAddress, responseSignaturePayload(req),
                                   req.signature)
  THEN "unauthorized"
  ELSE "pass"

SubmitStart(p) ==
  /\ Ready(p)
  /\ \E req \in SubmitResponseRequests :
       LET task == tasks[req.taskId]
           result == SubmitChecks(req, task)
       IN IF result # "pass"
          THEN Return(p, "submitTaskResponse", [Called("submit", req) EXCEPT !.task = task],
                      result)
          ELSE Goto(p, Called("submit_write", req))
  /\ UNCHANGED <<tasks, responses, deposits, serviceFeeBps, balanceOf, backendTasks>>

SubmitWrite(p) ==
  /\ At(p, "submit_write")
  /\ LET req == proc[p].req
     IN IF ~IsNull(responses[req.id])
        THEN \* the INSERT violates the primary key; the driver's error escapes
             Return(p, "submitTaskResponse", proc[p], "db_error") /\ UNCHANGED responses
        ELSE /\ responses' = dbCreateResponse(responses,
                               [id |-> req.id, task_id |-> req.taskId,
                                worker |-> normalizeAddress(req.workerAddress)])
             /\ Return(p, "submitTaskResponse", proc[p], "ok")
  /\ UNCHANGED <<tasks, deposits, serviceFeeBps, balanceOf, backendTasks>>

\* ------------------------------------------------------------------------
\* decideOnResponse
\* ------------------------------------------------------------------------

ResponseStatus == {"pending", "approved", "rejected"}

\* decisionSchema without the refinement that asks for settlementSignature
decisionSchemaNoSignature(req) ==
  /\ req.status # "pending"
  /\ (req.status = "approved" => req.encryptedSettlement # NULL)

\* decisionSchema: the three refinements on the parsed body
decisionSchema(req) ==
  /\ req.status # "pending"
  /\ (req.status = "approved" => req.settlementSignature # NONE)
  /\ (req.status = "approved" => req.encryptedSettlement # NULL)

\* decideOnResponse up to the read of the response row
DecideResponseChecks(req, response) ==
  IF req.status \notin ResponseStatus \/ req.status = "pending" THEN "invalid_request"
  ELSE IF IsNull(response) THEN "not_found"
  ELSE IF response.status # "pending" THEN "conflict"
  ELSE "pass"

\* the checks on the task row with the prices compared as numbers
DecideTaskChecksNumeric(req, response, task) ==
  IF IsNull(task) THEN "not_found"
  ELSE IF task.token = NONE \/ task.price = ZeroPrice THEN "conflict"
  ELSE IF normalizeAddress(req.ownerAddress) # task.owner THEN "forbidden"
  ELSE IF normalizeAddress(req.workerAddress) # response.worker THEN "forbidden"
  ELSE IF BigInt(req.price) # BigInt(task.price) THEN "invalid_request"
  ELSE IF req.status = "approved" /\ req.encryptedSettlement = NULL THEN "invalid_request"
  ELSE IF ~verifyDetachedSignature(req.ownerAddress, decisionSignaturePayload(req),
                                   req.signature)
  THEN "unauthorized"
  ELSE "pass"

\* decideOnResponse from the read of the task row to the signature check
DecideTaskChecks(req, response, task) ==
  IF IsNull(task) THEN "not_found"
  ELSE IF task.token = NONE \/ task.price = ZeroPrice THEN "conflict"
  ELSE IF normalizeAddress(req.ownerAddress) # task.owner THEN "forbidden"
  ELSE IF normalizeAddress(req.workerAddress) # response.worker THEN "forbidden"
  ELSE IF req.price # task.price THEN "invalid_request"
  ELSE IF req.status = "approved" /\ req.encryptedSettlement = NULL THEN "invalid_request"
  ELSE IF ~verifyDetachedSignature(req.ownerAddress, decisionSignaturePayload(req),
                                   req.signature)
  THEN "unauthorized"
  ELSE "pass"

\* the settlement authorization that the owner's client attaches to an
\* approval: the owner's signature over the SETTLE data of the task's
\* deposit, the decided price and the worker (plugin/src/index.ts)
createSettlementSignature(taskId, workerAddress, price, token) ==
  Sign(OwnerAccount,
       toEthSignedMessageHash(
         buildSettleDataHash(ContractAddress, taskDepositKey(taskId), OwnerAccount,
                             parseTokenIdentifier(token).address, workerAddress,
                             BigInt(price))))

\* the part of a decision request that decideOnResponse looks at before it
\* reads the task row; the shapes of body a client can send
DecisionShapes ==
  { <<"approved", "sealed", TRUE>>, <<"approved", "sealed", FALSE>>,
    <<"rejected", NULL, FALSE>>, <<"rejected", "sealed", TRUE>> }

DecisionHead(responseId, shape) ==
  [responseId |-> responseId, status |-> shape[1], encryptedSettlement |-> shape[2],
   settlementSignature |->
     IF shape[3]
     THEN createSettlementSignature("t1", WorkerAccount, <<9, 5>>, <<"base", "0xt1">>)
     ELSE NONE,
   ownerAddress |-> Unread, workerAddress |-> Unread, price |-> Unread,
   signature |-> Unread]

\* the rest of the request: <<ownerAddress, workerAddress, price, signer>>
DecisionRests ==
  { <<OwnerAccount, WorkerAccount, price, OwnerAccount>> : price \in {<<9, 5>>, <<0, 9, 5>>} }
  \cup { <<WorkerAccount, WorkerAccount, <<9, 5>>, WorkerAccount>>,
         <<OwnerAccount, OwnerAccount, <<9, 5>>, OwnerAccount>>,
         <<OwnerAccount, WorkerAccount, <<9, 5>>, WorkerAccount>> }

DecisionRequest(head, rest) ==
  LET part == [head EXCEPT !.ownerAddress = rest[1], !.workerAddress = rest[2],
                           !.price = rest[3]]
  IN [part EXCEPT !.signature = Sign(rest[4], decisionSignaturePayload(part))]

\* the settlement blob handed on as it was sent, whatever the decision
settlementAsSent(req) == req.encryptedSettlement

\* what decideOnResponse hands to updateResponseStatus
settlement(req) == IF req.status = "approved" THEN req.encryptedSettlement ELSE NULL

settlementSignature(req) == IF req.status = "approved" THEN req.settlementSignature ELSE NONE

\* The request is fixed when the call is made; the fields that the handler
\* does not look at before it reads the task row are drawn when it reads it.
DecideStart(p) ==
  /\ Ready(p)
  /\ \E responseId \in DOMAIN responses, shape \in DecisionShapes :
       LET req == DecisionHead(responseId, shape)
           response == responses[req.responseId]
           result == DecideResponseChecks(req, response)
       IN IF ~decisionSchema(req)
          THEN \* the ZodError reaches the error handler of the app
               Return(p, "decideOnResponse", Called("decide", req), "invalid_request")
          ELSE IF result # "pass"
          THEN Return(p, "decideOnResponse",
                      [Called("decide", req) EXCEPT !.response = response], result)
          ELSE Goto(p, [Called("decide_task", req) EXCEPT !.response = response])
  /\ UNCHANGED <<tasks, responses, deposits, serviceFeeBps, balanceOf, backendTasks>>

DecideReadTask(p) ==
  /\ At(p, "decide_task")
  /\ \E rest \in DecisionRests :
       LET req == DecisionRequest(proc[p].req, rest)
           response == proc[p].response
           task == tasks[response.task_id]
           f == [proc[p] EXCEPT !.pc = "decide_write_response", !.req = req, !.task = task]
           result == DecideTaskChecks(req, response, task)
       IN IF result # "pass" THEN Return(p, "decideOnResponse", f, result) ELSE Goto(p, f)
  /\ UNCHANGED <<tasks, responses, deposits, serviceFeeBps, balanceOf, backendTasks>>

DecideWriteResponse(p) ==
  /\ At(p, "decide_write_response")
  /\ LET req == proc[p].req
     IN /\ responses' = dbUpdateResponseStatus(responses, req.responseId, req.status,
                                               settlement(req), settlementSignature(req))
        /\ IF IsNull(responses[req.responseId])
           THEN Return(p, "decideOnResponse", proc[p], "internal_error")
           ELSE IF req.status = "approved"
           THEN Goto(p, [proc[p] EXCEPT !.pc = "decide_write_task"])
           ELSE Return(p, "decideOnResponse", proc[p], "ok")
  /\ UNCHANGED <<tasks, deposits, serviceFeeBps, balanceOf, backendTasks>>

DecideWriteTask(p) ==
  /\ At(p, "decide_write_task")
  /\ tasks' = dbUpdateTaskStatus(tasks, proc[p].task.id, "finished")
  /\ Return(p, "decideOnResponse", proc[p], "ok")
  /\ UNCHANGED <<responses, deposits, serviceFeeBps, balanceOf, backendTasks>>

\* ------------------------------------------------------------------------
\* cancelTask
\* ------------------------------------------------------------------------

\* the checks of cancelTask without the early return of a closed task
CancelChecksNoEarlyReturn(req, task) ==
  IF ~verifyDetachedSignature(req.ownerAddress, taskCancelSignaturePayload(req), req.signature)
  THEN "unauthorized"
  ELSE IF IsNull(task) THEN "not_found"
  ELSE IF task.token = NONE \/ task.price = ZeroPrice THEN "conflict"
  ELSE IF normalizeAddress(req.ownerAddress) # task.owner THEN "forbidden"
  ELSE IF task.status = "finished" THEN "conflict"
  ELSE IF task.status # "active" THEN "conflict"
  ELSE IF BigInt(task.price) <= 0 THEN "conflict"
  ELSE "pass"

\* the checks of cancelTask without the check that the task is active
CancelChecksNoActive(req, task) ==
  IF ~verifyDetachedSignature(req.ownerAddress, taskCancelSignaturePayload(req), req.signature)
  THEN "unauthorized"
  ELSE IF IsNull(task) THEN "not_found"
  ELSE IF task.token = NONE \/ task.price = ZeroPrice THEN "conflict"
  ELSE IF normalizeAddress(req.ownerAddress) # task.owner THEN "forbidden"
  ELSE IF task.status = "finished" THEN "conflict"
  ELSE IF task.status = "closed" /\ task.withdraw_signature # NONE THEN "return_task"
  ELSE IF BigInt(task.price) <= 0 THEN "conflict"
  ELSE "pass"

\* cancelTask from the signature check to the amount check, on the row read;
\* "return_task" is the early return of an already closed task
\* cancelTask that verifies the signature after it has looked the task up
CancelChecksVerifyAfterRead(req, task) ==
  IF IsNull(task) THEN "not_found"
  ELSE IF ~verifyDetachedSignature(req.ownerAddress, taskCancelSignaturePayload(req),
                                   req.signature)
  THEN "unauthorized"
  ELSE IF task.token = NONE \/ task.price = ZeroPrice THEN "conflict"
  ELSE IF normalizeAddress(req.ownerAddress) # task.owner THEN "forbidden"
  ELSE IF task.status = "finished" THEN "conflict"
  ELSE IF task.status = "closed" /\ task.withdraw_signature # NONE THEN "return_task"
  ELSE IF task.status # "active" THEN "conflict"
  ELSE IF BigInt(task.price) <= 0 THEN "conflict"
  ELSE "pass"

CancelChecks(req, task) ==
  IF ~verifyDetachedSignature(req.ownerAddress, taskCancelSignaturePayload(req), req.signature)
  THEN "unauthorized"
  ELSE IF IsNull(task) THEN "not_found"
  ELSE IF task.token = NONE \/ task.price = ZeroPrice THEN "conflict"
  ELSE IF normalizeAddress(req.ownerAddress) # task.owner THEN "forbidden"
  ELSE IF task.status = "finished" THEN "conflict"
  ELSE IF task.status = "closed" /\ task.withdraw_signature # NONE THEN "return_task"
  ELSE IF task.status # "active" THEN "conflict"
  ELSE IF BigInt(task.price) <= 0 THEN "conflict"
  ELSE "pass"

CancelStart(p) ==
  /\ Ready(p)
  /\ \E req \in TaskCancelRequests :
       LET task == tasks[req.taskId]
           result == CancelChecks(req, task)
           withdrawSignature ==
             IF task.withdraw_signature # NONE THEN task.withdraw_signature
             ELSE signWithdrawAuthorization(taskDepositKey(task.id),
                                            normalizeAddress(req.ownerAddress),
                                            parseTokenIdentifier(task.token).address,
                                            BigInt(task.price))
           f == [Called("cancel_close", req) EXCEPT !.task = task]
       IN IF result = "unauthorized"
          THEN \* thrown before getTaskById is called
               Return(p, "cancelTask", Called("cancel", req), result)
          ELSE IF result = "return_task" THEN Return(p, "cancelTask", f, "ok")
          ELSE IF result # "pass" THEN Return(p, "cancelTask", f, result)
          ELSE Goto(p, [f EXCEPT !.withdrawSignature = withdrawSignature])
  /\ UNCHANGED <<tasks, responses, deposits, serviceFeeBps, balanceOf, backendTasks>>

CancelClose(p) ==
  /\ At(p, "cancel_close")
  /\ tasks' = dbUpdateTaskStatus(tasks, proc[p].req.taskId, "closed")
  /\ Goto(p, [proc[p] EXCEPT !.pc = "cancel_store"])
  /\ UNCHANGED <<responses, deposits, serviceFeeBps, balanceOf, backendTasks>>

CancelStore(p) ==
  /\ At(p, "cancel_store")
  /\ tasks' = dbStoreWithdrawSignature(tasks, proc[p].req.taskId, proc[p].withdrawSignature)
  /\ Return(p, "cancelTask", proc[p],
            IF IsNull(tasks[proc[p].req.taskId]) THEN "internal_error" ELSE "ok")
  /\ UNCHANGED <<responses, deposits, serviceFeeBps, balanceOf, backendTasks>>

\* ------------------------------------------------------------------------
\* settleTask
\* ------------------------------------------------------------------------

SettleChecksNoWorker(req, response) ==
  IF ~verifyDetachedSignature(req.workerAddress, taskSettleSignaturePayload(req), req.signature)
  THEN "unauthorized"
  ELSE IF IsNull(response) THEN "not_found"
  ELSE IF response.task_id # req.taskId THEN "invalid_request"
  ELSE IF response.status # "approved" THEN "conflict"
  ELSE IF response.settlement_signature = NONE THEN "conflict"
  ELSE "pass"

SettleChecks(req, response) ==
  IF ~verifyDetachedSignature(req.workerAddress, taskSettleSignaturePayload(req), req.signature)
  THEN "unauthorized"
  ELSE IF IsNull(response) THEN "not_found"
  ELSE IF response.task_id # req.taskId THEN "invalid_request"
  ELSE IF normalizeAddress(req.workerAddress) # response.worker THEN "forbidden"
  ELSE IF response.status # "approved" THEN "conflict"
  ELSE IF response.settlement_signature = NONE THEN "conflict"
  ELSE "pass"

SettleStart(p) ==
  /\ Ready(p)
  /\ \E req \in TaskSettleRequests :
       LET response == responses[req.responseId]
           f == [Called("settle_task", req) EXCEPT !.response = response]
           result == SettleChecks(req, response)
       IN IF result = "unauthorized"
          THEN \* thrown before getResponseById is called
               Return(p, "settleTask", Called("settle", req), result)
          ELSE IF result # "pass" THEN Return(p, "settleTask", f, result)
          ELSE Goto(p, f)
  /\ UNCHANGED <<tasks, responses, deposits, serviceFeeBps, balanceOf, backendTasks>>

SettleReadTask(p) ==
  /\ At(p, "settle_task")
  /\ LET task == tasks[proc[p].req.taskId]
     IN Return(p, "settleTask", [proc[p] EXCEPT !.task = task],
               IF IsNull(task) THEN "not_found" ELSE "ok")
  /\ UNCHANGED <<tasks, responses, deposits, serviceFeeBps, balanceOf, backendTasks>>

\* ------------------------------------------------------------------------
\* queryTaskResponses, queryWorkerResponses
\* ------------------------------------------------------------------------

QueryTaskResponsesChecks(req, task) ==
  IF ~verifyDetachedSignature(req.ownerAddress, taskResponsesQuerySignaturePayload(req),
                              req.signature)
  THEN "unauthorized"
  ELSE IF IsNull(task) THEN "not_found"
  ELSE IF normalizeAddress(req.ownerAddress) # task.owner THEN "forbidden"
  ELSE "pass"

QueryTaskResponsesStart(p) ==
  /\ Ready(p)
  /\ \E req \in TaskResponsesQueryRequests :
       LET task == tasks[req.taskId]
           result == QueryTaskResponsesChecks(req, task)
           f == [Called("query_list", req) EXCEPT !.task = task]
       IN IF result = "unauthorized"
          THEN \* thrown before getTaskById is called
               Return(p, "queryTaskResponses", Called("query", req), result)
          ELSE IF result # "pass" THEN Return(p, "queryTaskResponses", f, result)
          ELSE Goto(p, f)
  /\ UNCHANGED <<tasks, responses, deposits, serviceFeeBps, balanceOf, backendTasks>>

QueryTaskResponsesList(p) ==
  /\ At(p, "query_list")
  /\ LET req == proc[p].req
         workerAddress == IF req.workerAddress # NULL
                          THEN normalizeAddress(req.workerAddress) ELSE NULL
     IN ReturnRows(p, "queryTaskResponses", proc[p],
                   dbListResponsesForTaskPaginated(
                     responses, req.taskId,
                     [worker |-> workerAddress, pageSize |-> req.pageSize,
                      pageNum |-> req.pageNum]))
  /\ UNCHANGED <<tasks, responses, deposits, serviceFeeBps, balanceOf, backendTasks>>

QueryWorkerResponses(p) ==
  /\ Ready(p)
  /\ \E req \in WorkerResponsesQueryRequests :
       LET f == Called("query", req)
       IN IF ~verifyDetachedSignature(req.workerAddress,
                                      workerResponsesQuerySignaturePayload(req),
                                      req.signature)
          THEN Return(p, "queryWorkerResponses", f, "unauthorized")
          ELSE ReturnRows(p, "queryWorkerResponses", f,
                          dbListResponsesByWorker(
                            responses, normalizeAddress(req.workerAddress),
                            [taskId |-> req.taskId, pageSize |-> req.pageSize,
                             pageNum |-> req.pageNum]))
  /\ UNCHANGED <<tasks, responses, deposits, serviceFeeBps, balanceOf, backendTasks>>

\* ------------------------------------------------------------------------
\* AgentEscrow transactions; a transaction that reverts changes nothing
\* ------------------------------------------------------------------------

Deposit(key, sender, token, amount) ==
  LET entry == deposits[key]
      fee == (amount * serviceFeeBps) \div BPS_DENOMINATOR
      locked == amount - fee
  IN /\ last.op = NULL
     /\ entry.owner = ZERO_ADDRESS
     /\ amount > 0
     /\ token # ZERO_ADDRESS
     /\ locked > 0
     /\ deposits' = [deposits EXCEPT ![key] =
                       [owner |-> sender, token |-> token, amountLocked |-> locked,
                        released |-> FALSE]]
     /\ balanceOf' = [balanceOf EXCEPT ![token] = @ + amount - fee]
     /\ UNCHANGED <<tasks, responses, proc, last, serviceFeeBps, backendTasks>>

Withdraw(key, sender, adminSignature) ==
  LET entry == deposits[key]
      digest == withdrawDigest(key, entry.owner, entry.token, entry.amountLocked)
  IN /\ last.op = NULL
     /\ entry.owner # ZERO_ADDRESS
     /\ ~entry.released
     /\ sender = entry.owner
     /\ recover(digest, adminSignature) = AdminSigner
     /\ deposits' = [deposits EXCEPT ![key].released = TRUE]
     /\ balanceOf' = [balanceOf EXCEPT ![entry.token] = @ - entry.amountLocked]
     /\ UNCHANGED <<tasks, responses, proc, last, serviceFeeBps, backendTasks>>

Settle(key, recipient, ownerSignature) ==
  LET entry == deposits[key]
      digest == settleDigest(key, entry.owner, entry.token, recipient, entry.amountLocked)
  IN /\ last.op = NULL
     /\ entry.owner # ZERO_ADDRESS
     /\ ~entry.released
     /\ recipient # ZERO_ADDRESS
     /\ recover(digest, ownerSignature) = entry.owner
     /\ deposits' = [deposits EXCEPT ![key].released = TRUE]
     /\ balanceOf' = [balanceOf EXCEPT ![entry.token] = @ - entry.amountLocked]
     /\ UNCHANGED <<tasks, responses, proc, last, serviceFeeBps, backendTasks>>

\* the signatures an account can hand to the escrow: those the service has
\* stored, and one the account makes itself over the digest the escrow expects
WithdrawSignatures(key, sender) ==
  { tasks[t].withdraw_signature : t \in { u \in TaskIds : tasks[u].withdraw_signature # NONE } }
    \cup { Sign(sender, withdrawDigest(key, deposits[key].owner, deposits[key].token,
                                       deposits[key].amountLocked)) }

SettleSignatures(key, recipient) ==
  { responses[r].settlement_signature :
      r \in { q \in RespIds : responses[q].settlement_signature # NONE } }
    \cup { Sign(recipient, settleDigest(key, deposits[key].owner, deposits[key].token,
                                        recipient, deposits[key].amountLocked)) }

\* ------------------------------------------------------------------------
\* Specification
\* ------------------------------------------------------------------------

Next ==
  \/ \E p \in Procs : CreateTask(p)
  \/ \E p \in Procs : FundStart(p)
  \/ \E p \in Procs : FundReadDeposit(p)
  \/ \E p \in Procs : FundWrite(p)
  \/ \E p \in Procs : SubmitStart(p)
  \/ \E p \in Procs : SubmitWrite(p)
  \/ \E p \in Procs : DecideStart(p)
  \/ \E p \in Procs : DecideReadTask(p)
  \/ \E p \in Procs : DecideWriteResponse(p)
  \/ \E p \in Procs : DecideWriteTask(p)
  \/ \E p \in Procs : CancelStart(p)
  \/ \E p \in Procs : CancelClose(p)
  \/ \E p \in Procs : CancelStore(p)
  \/ \E p \in Procs : SettleStart(p)
  \/ \E p \in Procs : SettleReadTask(p)
  \/ \E p \in Procs : QueryTaskResponsesStart(p)
  \/ \E p \in Procs : QueryTaskResponsesList(p)
  \/ \E p \in Procs : QueryWorkerResponses(p)
  \/ Reply
  \/ \E key \in Keys, sender \in Addr, token \in TokenAddr, amount \in DepositAmounts :
       Deposit(key, sender, token, amount)
  \/ \E key \in Keys, sender \in Addr :
       \E adminSignature \in WithdrawSignatures(key, sender) :
         Withdraw(key, sender, adminSignature)
  \/ \E key \in Keys, recipient \in Addr :
       \E ownerSignature \in SettleSignatures(key, recipient) :
         Settle(key, recipient, ownerSignature)

Spec == Init /\ [][Next]_vars

\* ------------------------------------------------------------------------
\* AgentEscrow on its own: every call of deposit, withdraw and settle, with
\* the calls that revert
\* ------------------------------------------------------------------------

\* feeRecipient the escrow is deployed with
FeeRecipient == "0xFE"

EscrowTaskIds == {"t1", "t2"}

EscrowKeys == { taskDepositKey(t) : t \in EscrowTaskIds }

\* gross amounts handed to deposit()
EscrowAmounts == {0, 19, 100}

\* accounts that sign what is handed to withdraw() and settle()
EscrowSigners == {AdminSigner} \cup Addr

\* an escrow deployed at another address
OtherContract == "0xDD"

\* what an authorization for the entry of a key can name instead of the
\* escrow, the token and the amount of the entry: one of them differs
StaleValues(entry) ==
  { <<OtherContract, entry.token, entry.amountLocked>>,
    <<ContractAddress, IF entry.token = "0xT1" THEN "0xT2" ELSE "0xT1", entry.amountLocked>>,
    <<ContractAddress, entry.token, entry.amountLocked + 1>> }

\* authorizations issued off-chain by the right signer for the key, but for
\* another escrow, token or amount than the entry has
StaleSignatures(key) ==
  LET entry == deposits[key]
  IN { Sign(AdminSigner,
            toEthSignedMessageHash(
              buildWithdrawDataHash(v[1], key, entry.owner, v[2], v[3]))) :
         v \in StaleValues(entry) }
     \cup { signDigest(entry.owner,
                       buildSettleDataHash(v[1][1], key, entry.owner, v[1][2], v[2], v[1][3])) :
              v \in StaleValues(entry) \X Addr }

\* the signatures a caller can supply: by any signer, over the withdraw or
\* the settle digest of the entry of any key, and the stale authorizations
EscrowSignatures ==
  { Sign(signer, withdrawDigest(k, deposits[k].owner, deposits[k].token,
                                deposits[k].amountLocked)) :
      signer \in EscrowSigners, k \in EscrowKeys }
  \cup { Sign(signer[1], settleDigest(k, deposits[k].owner, deposits[k].token, signer[2],
                                      deposits[k].amountLocked)) :
           signer \in EscrowSigners \X (Addr \cup {ZERO_ADDRESS}), k \in EscrowKeys }
  \cup UNION { StaleSignatures(k) : k \in EscrowKeys }

\* IERC20.transfer / transferFrom of a token that moves the amount and returns
Transfer(token, from, to, amount) ==
  [token |-> token, from |-> from, to |-> to, amount |-> amount]

DepositRegistered(key, owner, token, amountLocked, fee) ==
  [event |-> "DepositRegistered", key |-> key, owner |-> owner, recipient |-> token,
   amount |-> amountLocked, fee |-> fee, settled |-> FALSE]

DepositReleased(key, owner, recipient, amount, settled) ==
  [event |-> "DepositReleased", key |-> key, owner |-> owner, recipient |-> recipient,
   amount |-> amount, fee |-> 0, settled |-> settled]

\* the receipt of a transaction: the function called, its arguments, the
\* entry it found, its outcome ("ok" or the error it reverted with), and the
\* events and token transfers of a transaction that did not revert
Receipt(op, req, entry, result, events, transfers) ==
  [op |-> op, result |-> result, req |-> req, task |-> NoTask, response |-> NoResponse,
   onChain |-> entry, rows |-> {}, events |-> events, transfers |-> transfers]

\* what the transfers of a transaction add to the escrow's balance of a token
RECURSIVE NetInflow(_, _)
NetInflow(token, transfers) ==
  IF Len(transfers) = 0 THEN 0
  ELSE LET t == Head(transfers)
       IN (IF t.token = token /\ t.to = ContractAddress THEN t.amount ELSE 0)
          - (IF t.token = token /\ t.from = ContractAddress THEN t.amount ELSE 0)
          + NetInflow(token, Tail(transfers))

\* a transaction that reverts leaves the ledger as it was
Revert(op, req, entry, error) ==
  /\ last' = Receipt(op, req, entry, error, << >>, << >>)
  /\ UNCHANGED deposits

\* deposit that records the gross amount as locked
depositLocksGross(key, sender, token, amount) ==
  LET entry == deposits[key]
      req == [key |-> key, sender |-> sender, token |-> token, amount |-> amount,
              recipient |-> NULL, signature |-> NONE]
      fee == (amount * serviceFeeBps) \div BPS_DENOMINATOR
      locked == amount - fee
  IN /\ last.op = NULL
     /\ IF entry.owner # ZERO_ADDRESS THEN Revert("deposit", req, entry, "DepositAlreadyExists")
        ELSE IF ~(amount > 0) THEN Revert("deposit", req, entry, "amount zero")
        ELSE IF ~(token # ZERO_ADDRESS) THEN Revert("deposit", req, entry, "token zero")
        ELSE IF ~(locked > 0) THEN Revert("deposit", req, entry, "locked zero")
        ELSE /\ deposits' = [deposits EXCEPT ![key] =
                               [owner |-> sender, token |-> token, amountLocked |-> amount,
                                released |-> FALSE]]
             /\ last' = Receipt("deposit", req, entry, "ok",
                                <<DepositRegistered(key, sender, token, amount, fee)>>,
                                <<Transfer(token, sender, ContractAddress, amount)>>
                                  \o (IF fee > 0
                                      THEN <<Transfer(token, ContractAddress, FeeRecipient, fee)>>
                                      ELSE << >>))
     /\ balanceOf' = [held \in DOMAIN balanceOf |->
                        balanceOf[held] + NetInflow(held, last'.transfers)]
     /\ UNCHANGED <<tasks, responses, proc, serviceFeeBps, backendTasks>>

\* deposit with the fee rounded up instead of down
depositFeeRoundedUp(key, sender, token, amount) ==
  LET entry == deposits[key]
      req == [key |-> key, sender |-> sender, token |-> token, amount |-> amount,
              recipient |-> NULL, signature |-> NONE]
      fee == (amount * serviceFeeBps + BPS_DENOMINATOR - 1) \div BPS_DENOMINATOR
      locked == amount - fee
  IN /\ last.op = NULL
     /\ IF entry.owner # ZERO_ADDRESS THEN Revert("deposit", req, entry, "DepositAlreadyExists")
        ELSE IF ~(amount > 0) THEN Revert("deposit", req, entry, "amount zero")
        ELSE IF ~(token # ZERO_ADDRESS) THEN Revert("deposit", req, entry, "token zero")
        ELSE IF ~(locked > 0) THEN Revert("deposit", req, entry, "locked zero")
        ELSE /\ deposits' = [deposits EXCEPT ![key] =
                               [owner |-> sender, token |-> token, amountLocked |-> locked,
                                released |-> FALSE]]
             /\ last' = Receipt("deposit", req, entry, "ok",
                                <<DepositRegistered(key, sender, token, locked, fee)>>,
                                <<Transfer(token, sender, ContractAddress, amount)>>
                                  \o (IF fee > 0
                                      THEN <<Transfer(token, ContractAddress, FeeRecipient, fee)>>
                                      ELSE << >>))
     /\ balanceOf' = [held \in DOMAIN balanceOf |->
                        balanceOf[held] + NetInflow(held, last'.transfers)]
     /\ UNCHANGED <<tasks, responses, proc, serviceFeeBps, backendTasks>>

\* deposit that accepts a key whose entry has been released
depositOverReleased(key, sender, token, amount) ==
  LET entry == deposits[key]
      req == [key |-> key, sender |-> sender, token |-> token, amount |-> amount,
              recipient |-> NULL, signature |-> NONE]
      fee == (amount * serviceFeeBps) \div BPS_DENOMINATOR
      locked == amount - fee
  IN /\ last.op = NULL
     /\ IF entry.owner # ZERO_ADDRESS /\ ~entry.released
        THEN Revert("deposit", req, entry, "DepositAlreadyExists")
        ELSE IF ~(amount > 0) THEN Revert("deposit", req, entry, "amount zero")
        ELSE IF ~(token # ZERO_ADDRESS) THEN Revert("deposit", req, entry, "token zero")
        ELSE IF ~(locked > 0) THEN Revert("deposit", req, entry, "locked zero")
        ELSE /\ deposits' = [deposits EXCEPT ![key] =
                               [owner |-> sender, token |-> token, amountLocked |-> locked,
                                released |-> FALSE]]
             /\ last' = Receipt("deposit", req, entry, "ok",
                                <<DepositRegistered(key, sender, token, locked, fee)>>,
                                <<Transfer(token, sender, ContractAddress, amount)>>
                                  \o (IF fee > 0
                                      THEN <<Transfer(token, ContractAddress, FeeRecipient, fee)>>
                                      ELSE << >>))
     /\ balanceOf' = [held \in DOMAIN balanceOf |->
                        balanceOf[held] + NetInflow(held, last'.transfers)]
     /\ UNCHANGED <<tasks, responses, proc, serviceFeeBps, backendTasks>>

deposit(key, sender, token, amount) ==
  LET entry == deposits[key]
      req == [key |-> key, sender |-> sender, token |-> token, amount |-> amount,
              recipient |-> NULL, signature |-> NONE]
      fee == (amount * serviceFeeBps) \div BPS_DENOMINATOR
      locked == amount - fee
  IN /\ last.op = NULL
     /\ IF entry.owner # ZERO_ADDRESS THEN Revert("deposit", req, entry, "DepositAlreadyExists")
        ELSE IF ~(amount > 0) THEN Revert("deposit", req, entry, "amount zero")
        ELSE IF ~(token # ZERO_ADDRESS) THEN Revert("deposit", req, entry, "token zero")
        ELSE IF ~(locked > 0) THEN Revert("deposit", req, entry, "locked zero")
        ELSE /\ deposits' = [deposits EXCEPT ![key] =
                               [owner |-> sender, token |-> token, amountLocked |-> locked,
                                released |-> FALSE]]
             /\ last' = Receipt("deposit", req, entry, "ok",
                                <<DepositRegistered(key, sender, token, locked, fee)>>,
                                <<Transfer(token, sender, ContractAddress, amount)>>
                                  \o (IF fee > 0
                                      THEN <<Transfer(token, ContractAddress, FeeRecipient, fee)>>
                                      ELSE << >>))
     /\ balanceOf' = [held \in DOMAIN balanceOf |->
                        balanceOf[held] + NetInflow(held, last'.transfers)]
     /\ UNCHANGED <<tasks, responses, proc, serviceFeeBps, backendTasks>>

\* withdraw without its test of the released flag
withdrawNoReleasedTest(key, sender, adminSignature) ==
  LET entry == deposits[key]
      req == [key |-> key, sender |-> sender, token |-> NULL, amount |-> 0,
              recipient |-> NULL, signature |-> adminSignature]
      digest == withdrawDigest(key, entry.owner, entry.token, entry.amountLocked)
  IN /\ last.op = NULL
     /\ IF entry.owner = ZERO_ADDRESS THEN Revert("withdraw", req, entry, "DepositMissing")
        ELSE IF ~(sender = entry.owner) THEN Revert("withdraw", req, entry, "unauthorized")
        ELSE IF recover(digest, adminSignature) # AdminSigner
        THEN Revert("withdraw", req, entry, "InvalidSignature")
        ELSE /\ deposits' = [deposits EXCEPT ![key].released = TRUE]
             /\ last' = Receipt("withdraw", req, entry, "ok",
                                <<DepositReleased(key, entry.owner, entry.owner,
                                                  entry.amountLocked, FALSE)>>,
                                <<Transfer(entry.token, ContractAddress, entry.owner,
                                           entry.amountLocked)>>)
     /\ balanceOf' = [held \in DOMAIN balanceOf |->
                        balanceOf[held] + NetInflow(held, last'.transfers)]
     /\ UNCHANGED <<tasks, responses, proc, serviceFeeBps, backendTasks>>

\* withdraw without its test of the caller
withdrawNoSenderTest(key, sender, adminSignature) ==
  LET entry == deposits[key]
      req == [key |-> key, sender |-> sender, token |-> NULL, amount |-> 0,
              recipient |-> NULL, signature |-> adminSignature]
      digest == withdrawDigest(key, entry.owner, entry.token, entry.amountLocked)
  IN /\ last.op = NULL
     /\ IF entry.owner = ZERO_ADDRESS THEN Revert("withdraw", req, entry, "DepositMissing")
        ELSE IF entry.released THEN Revert("withdraw", req, entry, "DepositAlreadyReleased")
        ELSE IF recover(digest, adminSignature) # AdminSigner
        THEN Revert("withdraw", req, entry, "InvalidSignature")
        ELSE /\ deposits' = [deposits EXCEPT ![key].released = TRUE]
             /\ last' = Receipt("withdraw", req, entry, "ok",
                                <<DepositReleased(key, entry.owner, entry.owner,
                                                  entry.amountLocked, FALSE)>>,
                                <<Transfer(entry.token, ContractAddress, entry.owner,
                                           entry.amountLocked)>>)
     /\ balanceOf' = [held \in DOMAIN balanceOf |->
                        balanceOf[held] + NetInflow(held, last'.transfers)]
     /\ UNCHANGED <<tasks, responses, proc, serviceFeeBps, backendTasks>>

withdraw(key, sender, adminSignature) ==
  LET entry == deposits[key]
      req == [key |-> key, sender |-> sender, token |-> NULL, amount |-> 0,
              recipient |-> NULL, signature |-> adminSignature]
      digest == withdrawDigest(key, entry.owner, entry.token, entry.amountLocked)
  IN /\ last.op = NULL
     /\ IF entry.owner = ZERO_ADDRESS THEN Revert("withdraw", req, entry, "DepositMissing")
        ELSE IF entry.released THEN Revert("withdraw", req, entry, "DepositAlreadyReleased")
        ELSE IF ~(sender = entry.owner) THEN Revert("withdraw", req, entry, "unauthorized")
        ELSE IF recover(digest, adminSignature) # AdminSigner
        THEN Revert("withdraw", req, entry, "InvalidSignature")
        ELSE /\ deposits' = [deposits EXCEPT ![key].released = TRUE]
             /\ last' = Receipt("withdraw", req, entry, "ok",
                                <<DepositReleased(key, entry.owner, entry.owner,
                                                  entry.amountLocked, FALSE)>>,
                                <<Transfer(entry.token, ContractAddress, entry.owner,
                                           entry.amountLocked)>>)
     /\ balanceOf' = [held \in DOMAIN balanceOf |->
                        balanceOf[held] + NetInflow(held, last'.transfers)]
     /\ UNCHANGED <<tasks, responses, proc, serviceFeeBps, backendTasks>>

\* settle without its test of the recipient
settleNoRecipientTest(key, sender, recipient, ownerSignature) ==
  LET entry == deposits[key]
      req == [key |-> key, sender |-> sender, token |-> NULL, amount |-> 0,
              recipient |-> recipient, signature |-> ownerSignature]
      digest == settleDigest(key, entry.owner, entry.token, recipient, entry.amountLocked)
  IN /\ last.op = NULL
     /\ IF entry.owner = ZERO_ADDRESS THEN Revert("settle", req, entry, "DepositMissing")
        ELSE IF entry.released THEN Revert("settle", req, entry, "DepositAlreadyReleased")
        ELSE IF recover(digest, ownerSignature) # entry.owner
        THEN Revert("settle", req, entry, "InvalidSignature")
        ELSE /\ deposits' = [deposits EXCEPT ![key].released = TRUE]
             /\ last' = Receipt("settle", req, entry, "ok",
                                <<DepositReleased(key, entry.owner, recipient,
                                                  entry.amountLocked, TRUE)>>,
                                <<Transfer(entry.token, ContractAddress, recipient,
                                           entry.amountLocked)>>)
     /\ balanceOf' = [held \in DOMAIN balanceOf |->
                        balanceOf[held] + NetInflow(held, last'.transfers)]
     /\ UNCHANGED <<tasks, responses, proc, serviceFeeBps, backendTasks>>

settle(key, sender, recipient, ownerSignature) ==
  LET entry == deposits[key]
      req == [key |-> key, sender |-> sender, token |-> NULL, amount |-> 0,
              recipient |-> recipient, signature |-> ownerSignature]
      digest == settleDigest(key, entry.owner, entry.token, recipient, entry.amountLocked)
  IN /\ last.op = NULL
     /\ IF entry.owner = ZERO_ADDRESS THEN Revert("settle", req, entry, "DepositMissing")
        ELSE IF entry.released THEN Revert("settle", req, entry, "DepositAlreadyReleased")
        ELSE IF ~(recipient # ZERO_ADDRESS) THEN Revert("settle", req, entry, "recipient zero")
        ELSE IF recover(digest, ownerSignature) # entry.owner
        THEN Revert("settle", req, entry, "InvalidSignature")
        ELSE /\ deposits' = [deposits EXCEPT ![key].released = TRUE]
             /\ last' = Receipt("settle", req, entry, "ok",
                                <<DepositReleased(key, entry.owner, recipient,
                                                  entry.amountLocked, TRUE)>>,
                                <<Transfer(entry.token, ContractAddress, recipient,
                                           entry.amountLocked)>>)
     /\ balanceOf' = [held \in DOMAIN balanceOf |->
                        balanceOf[held] + NetInflow(held, last'.transfers)]
     /\ UNCHANGED <<tasks, responses, proc, serviceFeeBps, backendTasks>>

EscrowInit ==
  /\ tasks = [t \in TaskIds |-> NoTask]
  /\ responses = [r \in RespIds |-> NoResponse]
  /\ deposits = [k \in EscrowKeys |-> EmptyDeposit]
  /\ proc = [p \in Procs |-> Idle]
  /\ last = NoCall
  /\ Deployed
  /\ EmptyBackend

EscrowNext ==
  \/ \E key \in EscrowKeys, sender \in Addr, token \in TokenAddr \cup {ZERO_ADDRESS},
        amount \in EscrowAmounts :
       deposit(key, sender, token, amount)
  \/ \E key \in EscrowKeys, sender \in Addr, adminSignature \in EscrowSignatures :
       withdraw(key, sender, adminSignature)
  \/ \E key \in EscrowKeys, sender \in Addr, recipient \in Addr \cup {ZERO_ADDRESS},
        ownerSignature \in EscrowSignatures :
       settle(key, sender, recipient, ownerSignature)
  \/ Reply

EscrowSpec == EscrowInit /\ [][EscrowNext]_vars

\* ------------------------------------------------------------------------
\* Properties
\* ------------------------------------------------------------------------

\* ------------------------------------------------------------------------
\* The off-chain signers on their own: every authorization the service and
\* the plugin can issue
\* ------------------------------------------------------------------------

\* spellings in which an address reaches the off-chain builders
AddressSpellings == {"0xA", "0xa", "0xB", "0xb"}

TokenSpellings == {"0xT1", "0xt1", "0xT2"}

ContractSpellings == {"0xCC", "0xcc"}

\* amounts an entry can hold
LockedAmounts == {1, 95}

\* the service issues a withdraw authorization
SignWithdraw ==
  /\ last.op = NULL
  /\ \E key \in EscrowKeys, owner \in AddressSpellings, token \in TokenSpellings,
        amount \in LockedAmounts :
       last' = Receipt("signWithdrawAuthorization",
                       [key |-> key, sender |-> owner, token |-> token, amount |-> amount,
                        recipient |-> NULL, contract |-> ContractAddress,
                        signature |-> signWithdrawAuthorization(key, owner, token, amount)],
                       EmptyDeposit, "ok", << >>, << >>)
  /\ UNCHANGED <<tasks, responses, deposits, proc, serviceFeeBps, balanceOf, backendTasks>>

\* an owner's plugin issues a settle authorization
SignSettle ==
  /\ last.op = NULL
  /\ \E key \in EscrowKeys, owner \in Addr, token \in TokenSpellings,
        worker \in AddressSpellings, amount \in LockedAmounts,
        contract \in ContractSpellings :
       last' = Receipt("createSettlementSignature",
                       [key |-> key, sender |-> owner, token |-> token, amount |-> amount,
                        recipient |-> worker, contract |-> contract,
                        signature |->
                          signDigest(owner, buildSettleDataHash(contract, key, owner, token,
                                                                worker, amount))],
                       EmptyDeposit, "ok", << >>, << >>)
  /\ UNCHANGED <<tasks, responses, deposits, proc, serviceFeeBps, balanceOf, backendTasks>>

SignerNext ==
  \/ SignWithdraw
  \/ SignSettle
  \/ Reply

SignerSpec == EscrowInit /\ [][SignerNext]_vars

\* ------------------------------------------------------------------------
\* canonicalStringify on its own (task/src/signature.ts, plugin)
\* ------------------------------------------------------------------------

\* JSON values as tagged tuples: <<"null">>, <<"undefined">>, <<"string", s>>,
\* <<"array", items>>, <<"object", entries>> with entries the sequence of
\* <<key, value>> in insertion order, as Object.entries lists them

\* keys of a map: "a", "b", and two spellings of one accented letter, e1 the
\* precomposed code point and e2 the letter followed by a combining accent
JsonKeys == {"a", "b", "e1", "e2"}

\* place of a key in the collation of the locale: canonically equivalent
\* strings have the same place
CollationRank(key) ==
  CASE key = "a" -> 1
    [] key = "b" -> 2
    [] OTHER -> 3

localeCompare(a, b) ==
  IF CollationRank(a) < CollationRank(b) THEN -1
  ELSE IF CollationRank(a) > CollationRank(b) THEN 1
  ELSE 0

Front(s) == SubSeq(s, 1, Len(s) - 1)

\* Array.prototype.sort with the comparator of canonicalize: a stable sort,
\* entries that compare equal keep their order
RECURSIVE InsertEntry(_, _)
InsertEntry(e, sorted) ==
  IF Len(sorted) = 0 THEN <<e>>
  ELSE IF localeCompare(e[1], sorted[Len(sorted)][1]) < 0
  THEN Append(InsertEntry(e, Front(sorted)), sorted[Len(sorted)])
  ELSE Append(sorted, e)

RECURSIVE sortEntries(_)
sortEntries(entries) ==
  IF Len(entries) = 0 THEN << >>
  ELSE InsertEntry(entries[Len(entries)], sortEntries(Front(entries)))

IsDefined(entry) == entry[2][1] # "undefined"

RECURSIVE canonicalize(_)
canonicalize(value) ==
  CASE value[1] \in {"null", "undefined"} -> <<"null">>
    [] value[1] = "string" -> value
    [] value[1] = "array" ->
         <<"array", [i \in 1 .. Len(value[2]) |-> canonicalize(value[2][i])]>>
    [] value[1] = "object" ->
         LET entries == sortEntries(SelectSeq(value[2], IsDefined))
         IN <<"object",
              [i \in 1 .. Len(entries) |-> <<entries[i][1], canonicalize(entries[i][2])>>]>>

\* JSON.stringify: the text as the sequence of its tokens; the members of an
\* object come in the order of insertion
RECURSIVE JSONstringify(_)
RECURSIVE JoinItems(_)
RECURSIVE JoinMembers(_)
JSONstringify(value) ==
  CASE value[1] = "null" -> <<"null">>
    [] value[1] = "string" -> <<value[2]>>
    [] value[1] = "array" -> <<"[">> \o JoinItems(value[2]) \o <<"]">>
    [] value[1] = "object" -> <<"{">> \o JoinMembers(value[2]) \o <<"}">>

JoinItems(items) ==
  IF Len(items) = 0 THEN << >>
  ELSE JSONstringify(Head(items))
       \o (IF Len(items) > 1 THEN <<",">> \o JoinItems(Tail(items)) ELSE << >>)

JoinMembers(entries) ==
  IF Len(entries) = 0 THEN << >>
  ELSE <<Head(entries)[1], ":">> \o JSONstringify(Head(entries)[2])
       \o (IF Len(entries) > 1 THEN <<",">> \o JoinMembers(Tail(entries)) ELSE << >>)

canonicalStringify(payload) == JSONstringify(canonicalize(payload))

\* the largest number of keys of a map
MaxKeys == 3

\* the orders in which up to MaxKeys distinct keys can be inserted
KeyOrders ==
  { order \in UNION { [1 .. n -> JsonKeys] : n \in 1 .. MaxKeys } :
      \A i, j \in 1 .. Len(order) : i # j => order[i] # order[j] }

KeysOf(order) == { order[i] : i \in 1 .. Len(order) }

\* the map with these keys inserted in this order; the value of a key does
\* not depend on the order
ObjectOf(order) ==
  <<"object", [i \in 1 .. Len(order) |-> <<order[i], <<"string", order[i]>>>>]>>

\* where the map stands in the payload: the payload itself, a member of
\* another map, or an item of an array
Nestings == {"payload", "member", "item"}

PayloadOf(order, nesting) ==
  CASE nesting = "payload" -> ObjectOf(order)
    [] nesting = "member" ->
         <<"object", << <<"b", <<"undefined">>>>, <<"a", ObjectOf(order)>> >>>>
    [] nesting = "item" -> <<"array", << <<"null">>, ObjectOf(order) >>>>

\* the same map is built twice, its keys inserted in two orders, and both
\* are canonicalized
Canonicalize ==
  /\ last.op = NULL
  /\ \E first \in KeyOrders, nesting \in Nestings :
       \E second \in { order \in KeyOrders : KeysOf(order) = KeysOf(first) } :
         last' = Receipt("canonicalStringify",
                         [payload |-> PayloadOf(first, nesting),
                          reordered |-> PayloadOf(second, nesting),
                          canonical |-> canonicalStringify(PayloadOf(first, nesting)),
                          canonicalReordered |->
                            canonicalStringify(PayloadOf(second, nesting))],
                         EmptyDeposit, "ok", << >>, << >>)
  /\ UNCHANGED <<tasks, responses, deposits, proc, serviceFeeBps, balanceOf, backendTasks>>

CanonicalNext ==
  \/ Canonicalize
  \/ Reply

CanonicalSpec == EscrowInit /\ [][CanonicalNext]_vars

\* ------------------------------------------------------------------------
\* The signable messages side by side (task/src/signature.ts)
\* ------------------------------------------------------------------------

Operations ==
  {"createTask", "fundTask", "submitResponse", "decideOnResponse", "cancelTask",
   "settleTask", "queryTaskResponses", "queryWorkerResponses"}

\* the message an operation verifies for a request
SignableMessage(op, input) ==
  CASE op = "createTask" -> taskSignaturePayload(input)
    [] op = "fundTask" -> taskFundingSignaturePayload(input)
    [] op = "submitResponse" -> responseSignaturePayload(input)
    [] op = "decideOnResponse" -> decisionSignaturePayload(input)
    [] op = "cancelTask" -> taskCancelSignaturePayload(input)
    [] op = "settleTask" -> taskSettleSignaturePayload(input)
    [] op = "queryTaskResponses" -> taskResponsesQuerySignaturePayload(input)
    [] op = "queryWorkerResponses" -> workerResponsesQuerySignaturePayload(input)

\* the address an operation verifies the signature against
VerifiedAddress(op, input) ==
  IF op \in {"submitResponse", "settleTask", "queryWorkerResponses"}
  THEN input.workerAddress
  ELSE input.ownerAddress

\* request bodies that have every field any operation reads, so that one
\* body can be sent to each of them
SignableInputs ==
  { [id |-> id, taskId |-> id, responseId |-> responseId,
     ownerAddress |-> ownerAddress, workerAddress |-> workerAddress,
     price |-> <<9, 5>>, token |-> <<"base", "0xt1">>, status |-> "approved",
     encryptedSettlement |-> "sealed", settlementSignature |-> NONE,
     pageSize |-> DefaultPageSize, pageNum |-> DefaultPageNum] :
      id \in EscrowTaskIds, responseId \in EscrowTaskIds,
      ownerAddress \in Addr, workerAddress \in Addr }

\* a body signed for one operation is sent to an operation, which verifies
\* the signature over its own message
VerifySignature ==
  /\ last.op = NULL
  /\ \E op \in Operations, signedFor \in Operations, input \in SignableInputs,
        signer \in Addr :
       LET signature == Sign(signer, SignableMessage(signedFor, input))
       IN last' = Receipt(op,
                          [input |-> input, signedFor |-> signedFor, signer |-> signer,
                           message |-> SignableMessage(op, input),
                           signedMessage |-> SignableMessage(signedFor, input),
                           signature |-> signature],
                          EmptyDeposit,
                          IF verifyDetachedSignature(VerifiedAddress(op, input),
                                                     SignableMessage(op, input), signature)
                          THEN "ok" ELSE "unauthorized",
                          << >>, << >>)
  /\ UNCHANGED <<tasks, responses, deposits, proc, serviceFeeBps, balanceOf, backendTasks>>

MessageNext ==
  \/ VerifySignature
  \/ Reply

MessageSpec == EscrowInit /\ [][MessageNext]_vars

\* ------------------------------------------------------------------------
\* decideOnResponse on a task with two answers
\* ------------------------------------------------------------------------

\* the ids of the two responses submitted to the task
SubmittedIds == {"r1", "r2"}

\* the task has been created and funded and its deposit is locked
FundedTasks ==
  dbMarkTaskFunded(
    dbCreateTask([t \in TaskIds |-> NoTask],
                 [id |-> "t1", owner |-> OwnerAccount, status |-> "draft",
                  price |-> ZeroPrice, token |-> NONE]),
    "t1", <<9, 5>>, <<"base", "0xt1">>)

\* the worker has submitted both responses while the task was active
SubmittedResponses ==
  dbCreateResponse(
    dbCreateResponse([r \in SubmittedIds |-> NoResponse],
                     [id |-> "r1", task_id |-> "t1", worker |-> WorkerAccount]),
    [id |-> "r2", task_id |-> "t1", worker |-> WorkerAccount])

DecideInit ==
  /\ tasks = FundedTasks
  /\ responses = SubmittedResponses
  /\ deposits = [k \in Keys |->
                   [owner |-> OwnerAccount, token |-> "0xT1", amountLocked |-> 95,
                    released |-> FALSE]]
  /\ proc = [p \in Procs |-> Idle]
  /\ last = NoCall
  /\ serviceFeeBps = DeployedFeeBps
  /\ balanceOf = [token \in TokenAddr |-> IF token = "0xT1" THEN 95 ELSE 0]
  /\ EmptyBackend

DecideNext ==
  \/ \E p \in Procs : DecideStart(p)
  \/ \E p \in Procs : DecideReadTask(p)
  \/ \E p \in Procs : DecideWriteResponse(p)
  \/ \E p \in Procs : DecideWriteTask(p)
  \/ Reply

DecideSpec == DecideInit /\ [][DecideNext]_vars

\* ------------------------------------------------------------------------
\* AgentEscrow with its fee setter, and the escrow's token balances
\* ------------------------------------------------------------------------

\* the account that deployed the escrow, its owner
ContractOwner == OwnerAccount

\* values of _serviceFeeBps handed to the constructor
ConstructorFees == {0, 500, 1000, 1001}

\* values handed to setServiceFeeBps
NewFees == {0, 2000, 2001}

constructor(feeBps) ==
  /\ AdminSigner # ZERO_ADDRESS
  /\ FeeRecipient # ZERO_ADDRESS
  /\ feeBps <= 1000
  /\ serviceFeeBps = feeBps

ServiceFeeUpdated(newFeeBps) ==
  [event |-> "ServiceFeeUpdated", key |-> NONE, owner |-> NULL, recipient |-> NULL,
   amount |-> 0, fee |-> newFeeBps, settled |-> FALSE]

setServiceFeeBpsNoCap(sender, newFeeBps) ==
  LET req == [sender |-> sender, newFeeBps |-> newFeeBps]
  IN /\ last.op = NULL
     /\ IF sender # ContractOwner
        THEN Revert("setServiceFeeBps", req, EmptyDeposit, "not owner")
             /\ UNCHANGED serviceFeeBps
        ELSE /\ serviceFeeBps' = newFeeBps
             /\ last' = Receipt("setServiceFeeBps", req, EmptyDeposit, "ok",
                                <<ServiceFeeUpdated(newFeeBps)>>, << >>)
             /\ UNCHANGED deposits
     /\ UNCHANGED <<tasks, responses, proc, balanceOf, backendTasks>>

setServiceFeeBps(sender, newFeeBps) ==
  LET req == [sender |-> sender, newFeeBps |-> newFeeBps]
  IN /\ last.op = NULL
     /\ IF sender # ContractOwner
        THEN Revert("setServiceFeeBps", req, EmptyDeposit, "not owner")
             /\ UNCHANGED serviceFeeBps
        ELSE IF ~(newFeeBps <= 2000)
        THEN Revert("setServiceFeeBps", req, EmptyDeposit, "fee too high")
             /\ UNCHANGED serviceFeeBps
        ELSE /\ serviceFeeBps' = newFeeBps
             /\ last' = Receipt("setServiceFeeBps", req, EmptyDeposit, "ok",
                                <<ServiceFeeUpdated(newFeeBps)>>, << >>)
             /\ UNCHANGED deposits
     /\ UNCHANGED <<tasks, responses, proc, balanceOf, backendTasks>>

\* gross amounts handed to deposit
LedgerAmounts == {0, 4, 100}

\* the signature that releases the entry of the key to this recipient, by
\* withdraw or by settle, and a signature of nobody
ReleaseSignatures(key, recipient) ==
  { Sign(AdminSigner, withdrawDigest(key, deposits[key].owner, deposits[key].token,
                                     deposits[key].amountLocked)),
    Sign(deposits[key].owner,
         settleDigest(key, deposits[key].owner, deposits[key].token, recipient,
                      deposits[key].amountLocked)),
    Sign(ZERO_ADDRESS, withdrawDigest(key, deposits[key].owner, deposits[key].token,
                                      deposits[key].amountLocked)) }

LedgerInit ==
  /\ tasks = [t \in TaskIds |-> NoTask]
  /\ responses = [r \in RespIds |-> NoResponse]
  /\ deposits = [k \in EscrowKeys |-> EmptyDeposit]
  /\ proc = [p \in Procs |-> Idle]
  /\ last = NoCall
  /\ \E feeBps \in ConstructorFees : constructor(feeBps)
  /\ balanceOf = [token \in TokenAddr |-> 0]
  /\ EmptyBackend

LedgerNext ==
  \/ \E sender \in Addr, newFeeBps \in NewFees : setServiceFeeBps(sender, newFeeBps)
  \/ \E key \in EscrowKeys, token \in TokenAddr, amount \in LedgerAmounts :
       deposit(key, OwnerAccount, token, amount)
  \/ \E key \in EscrowKeys, sender \in Addr :
       \E adminSignature \in ReleaseSignatures(key, sender) :
         withdraw(key, sender, adminSignature)
  \/ \E key \in EscrowKeys, recipient \in Addr :
       \E ownerSignature \in ReleaseSignatures(key, recipient) :
         settle(key, WorkerAccount, recipient, ownerSignature)
  \/ Reply

LedgerSpec == LedgerInit /\ [][LedgerNext]_vars

\* ------------------------------------------------------------------------
\* The bearer-token backend (packages/backend/src/routes/tasks.ts): each
\* handler runs to its end without awaiting
\* ------------------------------------------------------------------------

\* agentId of the token that authenticate accepted
Agents == {"agent1", "agent2", "agent3"}

\* String.prototype.toLowerCase on the addresses that are sent
toLowerCase(a) ==
  CASE a = "0xA" -> "0xa"
    [] a = "0xB" -> "0xb"
    [] OTHER -> a

\* Date.now()
Now == "now"

\* the response of a handler: the status code, with the request it answers
Respond(op, agent, id, body, code) ==
  last' = Receipt(op, [agent |-> agent, id |-> id, body |-> body], EmptyDeposit, code,
                  << >>, << >>)

\* POST /tasks
postTask(agent, id, posterAddress) ==
  /\ last.op = NULL
  /\ backendTasks[id] = NoRow
  /\ IF posterAddress = NULL
     THEN Respond("postTask", agent, id, posterAddress, "400") /\ UNCHANGED backendTasks
     ELSE /\ backendTasks' = [backendTasks EXCEPT ![id] =
                                [NoRow EXCEPT !.status = "open",
                                              !.posterAddress = toLowerCase(posterAddress),
                                              !.posterAgentId = agent]]
          /\ Respond("postTask", agent, id, posterAddress, "201")
  /\ UNCHANGED <<tasks, responses, deposits, proc, serviceFeeBps, balanceOf>>

\* accept without its test of the poster
postAcceptNoPosterTest(agent, id, workerAddress) ==
  LET row == backendTasks[id]
  IN /\ last.op = NULL
     /\ IF row = NoRow
        THEN Respond("postAccept", agent, id, workerAddress, "404") /\ UNCHANGED backendTasks
        ELSE IF row.status # "open"
        THEN Respond("postAccept", agent, id, workerAddress, "409") /\ UNCHANGED backendTasks
        ELSE IF workerAddress = NULL
        THEN Respond("postAccept", agent, id, workerAddress, "400") /\ UNCHANGED backendTasks
        ELSE /\ backendTasks' = [backendTasks EXCEPT
                                   ![id].status = "accepted",
                                   ![id].workerAddress = toLowerCase(workerAddress),
                                   ![id].workerAgentId = agent,
                                   ![id].acceptedAt = Now]
             /\ Respond("postAccept", agent, id, workerAddress, "200")
     /\ UNCHANGED <<tasks, responses, deposits, proc, serviceFeeBps, balanceOf>>

\* POST /tasks/:id/accept
postAccept(agent, id, workerAddress) ==
  LET row == backendTasks[id]
  IN /\ last.op = NULL
     /\ IF row = NoRow
        THEN Respond("postAccept", agent, id, workerAddress, "404") /\ UNCHANGED backendTasks
        ELSE IF row.status # "open"
        THEN Respond("postAccept", agent, id, workerAddress, "409") /\ UNCHANGED backendTasks
        ELSE IF row.posterAgentId = agent
        THEN Respond("postAccept", agent, id, workerAddress, "409") /\ UNCHANGED backendTasks
        ELSE IF workerAddress = NULL
        THEN Respond("postAccept", agent, id, workerAddress, "400") /\ UNCHANGED backendTasks
        ELSE /\ backendTasks' = [backendTasks EXCEPT
                                   ![id].status = "accepted",
                                   ![id].workerAddress = toLowerCase(workerAddress),
                                   ![id].workerAgentId = agent,
                                   ![id].acceptedAt = Now]
             /\ Respond("postAccept", agent, id, workerAddress, "200")
     /\ UNCHANGED <<tasks, responses, deposits, proc, serviceFeeBps, balanceOf>>

\* POST /tasks/:id/complete
postComplete(agent, id, completionProof) ==
  LET row == backendTasks[id]
  IN /\ last.op = NULL
     /\ IF row = NoRow
        THEN Respond("postComplete", agent, id, completionProof, "404")
             /\ UNCHANGED backendTasks
        ELSE IF row.status # "accepted"
        THEN Respond("postComplete", agent, id, completionProof, "409")
             /\ UNCHANGED backendTasks
        ELSE IF row.workerAgentId # agent
        THEN Respond("postComplete", agent, id, completionProof, "403")
             /\ UNCHANGED backendTasks
        ELSE IF completionProof = NULL
        THEN Respond("postComplete", agent, id, completionProof, "400")
             /\ UNCHANGED backendTasks
        ELSE /\ backendTasks' = [backendTasks EXCEPT
                                   ![id].status = "completed",
                                   ![id].completionProof = completionProof,
                                   ![id].completedAt = Now]
             /\ Respond("postComplete", agent, id, completionProof, "200")
     /\ UNCHANGED <<tasks, responses, deposits, proc, serviceFeeBps, balanceOf>>

\* verify whose rejection reopens the task and leaves the worker on the row
postVerifyKeepsWorker(agent, id, approved) ==
  LET row == backendTasks[id]
  IN /\ last.op = NULL
     /\ IF row = NoRow
        THEN Respond("postVerify", agent, id, approved, "404") /\ UNCHANGED backendTasks
        ELSE IF row.status # "completed"
        THEN Respond("postVerify", agent, id, approved, "409") /\ UNCHANGED backendTasks
        ELSE IF row.posterAgentId # agent
        THEN Respond("postVerify", agent, id, approved, "403") /\ UNCHANGED backendTasks
        ELSE IF approved = NULL
        THEN Respond("postVerify", agent, id, approved, "400") /\ UNCHANGED backendTasks
        ELSE /\ backendTasks' =
                  IF approved = "true"
                  THEN [backendTasks EXCEPT ![id].status = "verified",
                                            ![id].txHash = NULL,
                                            ![id].verifiedAt = Now]
                  ELSE [backendTasks EXCEPT ![id].status = "open"]
             /\ Respond("postVerify", agent, id, approved, "200")
     /\ UNCHANGED <<tasks, responses, deposits, proc, serviceFeeBps, balanceOf>>

\* POST /tasks/:id/verify; approved is "true", "false" or absent
postVerify(agent, id, approved) ==
  LET row == backendTasks[id]
  IN /\ last.op = NULL
     /\ IF row = NoRow
        THEN Respond("postVerify", agent, id, approved, "404") /\ UNCHANGED backendTasks
        ELSE IF row.status # "completed"
        THEN Respond("postVerify", agent, id, approved, "409") /\ UNCHANGED backendTasks
        ELSE IF row.posterAgentId # agent
        THEN Respond("postVerify", agent, id, approved, "403") /\ UNCHANGED backendTasks
        ELSE IF approved = NULL
        THEN Respond("postVerify", agent, id, approved, "400") /\ UNCHANGED backendTasks
        ELSE /\ backendTasks' =
                  IF approved = "true"
                  THEN [backendTasks EXCEPT ![id].status = "verified",
                                            ![id].txHash = NULL,
                                            ![id].verifiedAt = Now]
                  ELSE [backendTasks EXCEPT ![id].status = "open",
                                            ![id].workerAddress = NULL,
                                            ![id].workerAgentId = NULL,
                                            ![id].acceptedAt = NULL,
                                            ![id].completedAt = NULL,
                                            ![id].completionProof = NULL]
             /\ Respond("postVerify", agent, id, approved, "200")
     /\ UNCHANGED <<tasks, responses, deposits, proc, serviceFeeBps, balanceOf>>

\* DELETE /tasks/:id
deleteTask(agent, id) ==
  LET row == backendTasks[id]
  IN /\ last.op = NULL
     /\ IF row = NoRow
        THEN Respond("deleteTask", agent, id, NULL, "404") /\ UNCHANGED backendTasks
        ELSE IF row.posterAgentId # agent
        THEN Respond("deleteTask", agent, id, NULL, "403") /\ UNCHANGED backendTasks
        ELSE IF row.status \notin {"open", "accepted"}
        THEN Respond("deleteTask", agent, id, NULL, "409") /\ UNCHANGED backendTasks
        ELSE /\ backendTasks' = [backendTasks EXCEPT ![id].status = "cancelled"]
             /\ Respond("deleteTask", agent, id, NULL, "200")
     /\ UNCHANGED <<tasks, responses, deposits, proc, serviceFeeBps, balanceOf>>

BackendNext ==
  \/ \E agent \in Agents, id \in BackendTaskIds, posterAddress \in {NULL, "0xA"} :
       postTask(agent, id, posterAddress)
  \/ \E agent \in Agents, id \in BackendTaskIds, workerAddress \in {NULL, "0xA", "0xB"} :
       postAccept(agent, id, workerAddress)
  \/ \E agent \in Agents, id \in BackendTaskIds, completionProof \in {NULL, "proof"} :
       postComplete(agent, id, completionProof)
  \/ \E agent \in Agents, id \in BackendTaskIds, approved \in {NULL, "true", "false"} :
       postVerify(agent, id, approved)
  \/ \E agent \in Agents, id \in BackendTaskIds : deleteTask(agent, id)
  \/ Reply

BackendSpec == EscrowInit /\ [][BackendNext]_vars

\* the ledger entry differs from the signed request in owner, token or amount
LedgerDiffers(req, onChain) ==
  \/ normalizeAddress(onChain.owner) # normalizeAddress(req.ownerAddress)
  \/ normalizeAddress(onChain.token) # parseTokenIdentifier(req.token).address
  \/ onChain.amountLocked # BigInt(req.price)

\* status, price or token of task t is written with another value
FundingChanges(t) ==
  \/ tasks'[t].status # tasks[t].status
  \/ tasks'[t].price # tasks[t].price
  \/ tasks'[t].token # tasks[t].token

\* C1: a step makes a task active, or rewrites the price or token of an
\* active task, only as the write of a fundTask call that returns ok, stores
\* the price and token of its request, made in the name of the task owner,
\* and that read a ledger entry with a non-zero owner equal to the task
\* owner, unreleased, with the token address of the signed identifier and
\* amountLocked equal to the signed price.  A fundTask call that reads an
\* unreleased entry differing in owner, token or amount returns
\* invalid_request and leaves the tasks table as it was.
FundRequiresLedgerAgreement ==
  [][ /\ \A t \in TaskIds :
           (tasks'[t].status = "active" /\ FundingChanges(t))
           => /\ last'.op = "fundTask"
              /\ last'.result = "ok"
              /\ last'.req.taskId = t
              /\ tasks'[t].price = last'.req.price
              /\ tasks'[t].token = last'.req.token
              /\ normalizeAddress(last'.req.ownerAddress) = tasks[t].owner
              /\ last'.onChain.owner # ZERO_ADDRESS
              /\ normalizeAddress(last'.onChain.owner) = tasks[t].owner
              /\ ~last'.onChain.released
              /\ normalizeAddress(last'.onChain.token)
                   = parseTokenIdentifier(last'.req.token).address
              /\ last'.onChain.amountLocked = BigInt(last'.req.price)
      /\ \A p \in Procs :
           (/\ proc[p].pc = "fund_deposit"
            /\ proc'[p].pc = "idle"
            /\ ~last'.onChain.released
            /\ LedgerDiffers(last'.req, last'.onChain))
           => last'.result = "invalid_request" /\ tasks' = tasks
    ]_vars

\* C1 witness: a fundTask call has returned ok, the task is active with the
\* signed price, and the entry it read locks that amount
FundedFromLedger ==
  /\ last.op = "fundTask"
  /\ last.result = "ok"
  /\ tasks[last.req.taskId].status = "active"
  /\ tasks[last.req.taskId].price = last.req.price
  /\ last.onChain.amountLocked = BigInt(last.req.price)

StatusLifecycle ==
  [][ \A t \in TaskIds :
        tasks'[t].status # tasks[t].status
        => <<tasks[t].status, tasks'[t].status>>
             \in { <<NULL, "draft">>, <<"draft", "active">>, <<"active", "finished">>,
                   <<"active", "closed">> }
    ]_vars

\* C4 as stated: no approving decideOnResponse that read the task as active
\* has written its approval while the task has been closed, with a withdraw
\* signature stored, by a cancelTask that ran since that read.
CancelDecideExclusive ==
  \A p \in Procs :
    ~(/\ proc[p].pc = "decide_write_task"
      /\ proc[p].task.status = "active"
      /\ proc[p].task.withdraw_signature = NONE
      /\ responses[proc[p].req.responseId].status = "approved"
      /\ tasks[proc[p].task.id].status = "closed"
      /\ tasks[proc[p].task.id].withdraw_signature # NONE)

\* C5: a task that is active, finished or closed has a token and a price
\* above zero that are the token and amountLocked of the ledger entry under
\* its key, and the entry that a fundTask call about to write has read is
\* that entry; a draft task has price '0' and no token.
FundedMatchesLedger ==
  /\ \A t \in TaskIds :
       /\ tasks[t].status \in {"active", "finished", "closed"}
          => /\ tasks[t].token # NONE
             /\ BigInt(tasks[t].price) > 0
             /\ BigInt(tasks[t].price) = deposits[taskDepositKey(t)].amountLocked
             /\ parseTokenIdentifier(tasks[t].token).address
                  = normalizeAddress(deposits[taskDepositKey(t)].token)
       /\ tasks[t].status = "draft"
          => tasks[t].price = ZeroPrice /\ tasks[t].token = NONE
  /\ \A p \in Procs :
       proc[p].pc = "fund_write"
       => /\ proc[p].onChain.token = deposits[taskDepositKey(proc[p].req.taskId)].token
          /\ proc[p].onChain.amountLocked
               = deposits[taskDepositKey(proc[p].req.taskId)].amountLocked

\* C5 witness: a task funded with the price string '095' against an entry
\* that locks 95 has been closed
ClosedTaskMatchesLedger ==
  \E t \in TaskIds :
    /\ tasks[t].status = "closed"
    /\ tasks[t].price = <<0, 9, 5>>
    /\ deposits[taskDepositKey(t)].amountLocked = 95

\* C6 as stated: once the status of a response is approved or rejected, no
\* step changes its status, its settlement blob or its settlement signature.
DecidedOnce ==
  [][ \A r \in RespIds :
        responses[r].status \in {"approved", "rejected"}
        => /\ responses'[r].status = responses[r].status
           /\ responses'[r].settlement = responses[r].settlement
           /\ responses'[r].settlement_signature = responses[r].settlement_signature
    ]_vars

DecisionPriceBinding ==
  [][ \A p \in Procs :
        /\ (/\ proc[p].pc = "decide_task"
            /\ proc'[p].pc = "idle"
            /\ ~IsNull(last'.task)
            /\ last'.task.token # NONE
            /\ last'.task.price # ZeroPrice
            /\ normalizeAddress(last'.req.ownerAddress) = last'.task.owner
            /\ normalizeAddress(last'.req.workerAddress) = last'.response.worker
            /\ last'.req.price # last'.task.price)
           => /\ last'.result = "invalid_request"
              /\ tasks' = tasks
              /\ responses' = responses
        /\ (proc[p].pc = "decide_task" /\ proc'[p].pc = "decide_write_response")
           => proc'[p].req.price = proc'[p].task.price
    ]_vars

\* C9 witness: a decision whose price string denotes the stored amount with
\* another spelling has been refused with invalid_request
SameAmountOtherSpellingRefused ==
  /\ last.op = "decideOnResponse"
  /\ last.result = "invalid_request"
  /\ ~IsNull(last.task)
  /\ last.req.price # last.task.price
  /\ BigInt(last.req.price) = BigInt(last.task.price)

ReturnsAtOnce(op) == last.op = NULL /\ last'.op = op /\ proc' = proc

CancelRefused(req, task) ==
  \/ task.token = NONE
  \/ task.price = ZeroPrice
  \/ /\ normalizeAddress(req.ownerAddress) = task.owner
     /\ task.status # "active"
     /\ ~(task.status = "closed" /\ task.withdraw_signature # NONE)

FinishedIsFrozen ==
  [][ \A t \in TaskIds :
        tasks[t].status = "finished"
        => /\ tasks'[t] = tasks[t]
           /\ \A r \in RespIds :
                (IsNull(responses[r]) /\ ~IsNull(responses'[r]))
                => responses'[r].task_id # t
           /\ \A p \in Procs :
                (proc[p].pc = "idle" /\ proc'[p].pc # "idle")
                => ~(/\ proc'[p].pc \in {"fund_deposit", "cancel_close", "submit_write"}
                     /\ proc'[p].req.taskId = t)
    ]_vars

\* the worker's signature on a submitTaskResponse request verifies
WorkerSignatureVerifies(req) ==
  verifyDetachedSignature(req.workerAddress, responseSignaturePayload(req), req.signature)

RejectionCodes == {"unauthorized", "forbidden", "invalid_request", "not_found", "conflict"}

\* where a handler stands while it has not yet reached its first write
BeforeFirstWrite == {"idle", "fund_deposit", "decide_task", "settle_task"}

\* C15: a call of createTask, fundTask, submitTaskResponse, decideOnResponse,
\* cancelTask or settleTask that ends with unauthorized, forbidden,
\* invalid_request, not_found or conflict ends at a point of its handler that
\* precedes the handler's first write, and the step that ends it changes no
\* task and no response; a handler that has not reached its first write has
\* changed nothing.
RejectedCallWritesNothing ==
  [][ /\ (last.op = NULL /\ last'.op # NULL /\ last'.result \in RejectionCodes)
         => /\ tasks' = tasks
            /\ responses' = responses
            /\ \A p \in Procs : proc'[p] # proc[p] => proc[p].pc \in BeforeFirstWrite
      /\ (tasks' # tasks \/ responses' # responses)
         => \E p \in Procs :
              /\ proc'[p] # proc[p] \/ last'.op = "createTask"
              /\ proc'[p].pc \notin BeforeFirstWrite \ {"idle"}
    ]_vars

\* a fundTask refused after its ledger read left the task as it was
FundRefusedAfterLedgerRead ==
  /\ last.op = "fundTask"
  /\ last.result \in RejectionCodes
  /\ last.onChain # EmptyDeposit
  /\ ~IsNull(last.task)
  /\ tasks[last.req.taskId] = last.task

\* C16 as stated: in every state another request can observe, an approved
\* response has a finished parent task, and a closed task holds its withdraw
\* signature (no decision and no cancellation is half-applied).
AllOrNothing ==
  /\ \A r \in RespIds :
       (~IsNull(responses[r]) /\ responses[r].status = "approved")
       => tasks[responses[r].task_id].status = "finished"
  /\ \A t \in TaskIds :
       (~IsNull(tasks[t]) /\ tasks[t].status = "closed")
       => tasks[t].withdraw_signature # NONE

\* the fundTask of p reads the ledger entry of its task's key in this step
FundReadsLedger(p) ==
  /\ proc[p].pc = "fund_deposit"
  /\ proc'[p].pc # "fund_deposit"

\* C17 as stated: a fundTask that finds the ledger entry of its key missing
\* (all-zero owner) or released fails with conflict and leaves the task
\* unchanged.
FundConflictOnMissingOrReleased ==
  [][ \A p \in Procs :
        LET onChain == deposits[taskDepositKey(proc[p].req.taskId)]
        IN (FundReadsLedger(p) /\ (onChain.owner = ZERO_ADDRESS \/ onChain.released))
           => /\ last'.op = "fundTask"
              /\ last'.result = "conflict"
              /\ tasks' = tasks
    ]_vars

\* C17: a fundTask that finds the ledger entry of its key missing (all-zero
\* owner) fails with invalid_request, one that finds an entry with an owner
\* and the released flag set fails with conflict, whatever the entry's owner,
\* token and amount are; both leave the task unchanged.
FundRefusedOnMissingOrReleased ==
  [][ \A p \in Procs :
        LET onChain == deposits[taskDepositKey(proc[p].req.taskId)]
        IN (FundReadsLedger(p) /\ (onChain.owner = ZERO_ADDRESS \/ onChain.released))
           => /\ last'.op = "fundTask"
              /\ last'.onChain = onChain
              /\ last'.result = IF onChain.owner = ZERO_ADDRESS THEN "invalid_request"
                                ELSE "conflict"
              /\ proc'[p].pc = "idle"
              /\ tasks' = tasks
    ]_vars

\* a fundTask has just been refused with conflict on a released ledger entry
FundRefusedOnReleased ==
  /\ last.op = "fundTask"
  /\ last.result = "conflict"
  /\ last.onChain.owner # ZERO_ADDRESS
  /\ last.onChain.released
  /\ tasks[last.req.taskId].status = last.task.status

\* the operations that verify the request signature before anything else
VerifyFirstOps ==
  {"createTask", "fundTask", "cancelTask", "queryTaskResponses", "queryWorkerResponses"}

\* where a handler of one of these operations stands after its first step
VerifyFirstLaterPcs == {"fund_deposit", "fund_write", "cancel_close", "cancel_store", "query_list"}

\* the signature of request req of operation op verifies
SignatureVerifies(op, req) ==
  CASE op = "createTask" ->
         verifyDetachedSignature(req.ownerAddress, taskSignaturePayload(req), req.signature)
    [] op = "fundTask" ->
         verifyDetachedSignature(req.ownerAddress, taskFundingSignaturePayload(req),
                                 req.signature)
    [] op = "cancelTask" ->
         verifyDetachedSignature(req.ownerAddress, taskCancelSignaturePayload(req),
                                 req.signature)
    [] op = "queryTaskResponses" ->
         verifyDetachedSignature(req.ownerAddress, taskResponsesQuerySignaturePayload(req),
                                 req.signature)
    [] op = "queryWorkerResponses" ->
         verifyDetachedSignature(req.workerAddress, workerResponsesQuerySignaturePayload(req),
                                 req.signature)
    [] OTHER -> TRUE

\* the operation a handler standing at pc belongs to
OpAt(pc) ==
  CASE pc \in {"fund_deposit", "fund_write"} -> "fundTask"
    [] pc \in {"cancel_close", "cancel_store"} -> "cancelTask"
    [] pc = "query_list" -> "queryTaskResponses"
    [] OTHER -> NULL

\* C18: a createTask, fundTask, cancelTask, queryTaskResponses or
\* queryWorkerResponses request whose signature fails verification is
\* answered unauthorized in the first step of its handler: the reply carries
\* no task row, no ledger entry and no list, no handler goes on to a later
\* step with such a request, and no task, response or ledger entry changes.
UnverifiedRejectedFirst ==
  [][ /\ (last.op = NULL /\ last'.op \in VerifyFirstOps
          /\ ~SignatureVerifies(last'.op, last'.req))
         => /\ last'.result = "unauthorized"
            /\ proc' = proc
            /\ last'.task = NoTask
            /\ last'.onChain = EmptyDeposit
            /\ last'.rows = {}
            /\ UNCHANGED <<tasks, responses, deposits, serviceFeeBps, balanceOf, backendTasks>>
      /\ \A p \in Procs :
           (proc[p].pc = "idle" /\ proc'[p].pc \in VerifyFirstLaterPcs)
           => SignatureVerifies(OpAt(proc'[p].pc), proc'[p].req)
    ]_vars

\* a cancelTask for an existing task was refused for its signature without
\* the task being read
CancelRefusedUnread ==
  /\ last.op = "cancelTask"
  /\ last.result = "unauthorized"
  /\ ~IsNull(tasks[last.req.taskId])
  /\ last.task = NoTask

\* the task a request of fundTask, cancelTask or decideOnResponse is about
TaskOf(op, req) ==
  IF op = "decideOnResponse" THEN tasks[responses[req.responseId].task_id]
  ELSE tasks[req.taskId]

\* request req of operation op names another owner than the stored task has,
\* or another worker than the stored response has
OwnerMismatch(op, req) ==
  /\ op \in {"fundTask", "cancelTask", "decideOnResponse"}
  /\ req.ownerAddress # Unread
  /\ op = "decideOnResponse" => ~IsNull(responses[req.responseId])
  /\ ~IsNull(TaskOf(op, req))
  /\ normalizeAddress(req.ownerAddress) # TaskOf(op, req).owner

WorkerMismatch(op, req) ==
  /\ op \in {"decideOnResponse", "settleTask"}
  /\ req.workerAddress # Unread
  /\ ~IsNull(responses[req.responseId])
  /\ op = "decideOnResponse" => ~IsNull(TaskOf(op, req))
  /\ normalizeAddress(req.workerAddress) # responses[req.responseId].worker

\* C19 as stated: every fundTask, cancelTask or decideOnResponse call whose
\* ownerAddress differs from the stored owner, and every decideOnResponse or
\* settleTask call whose workerAddress differs from the stored worker, fails
\* with forbidden and changes nothing.
MismatchIsForbidden ==
  [][ (last.op = NULL /\ last'.op # NULL
       /\ (OwnerMismatch(last'.op, last'.req) \/ WorkerMismatch(last'.op, last'.req)))
      => /\ last'.result = "forbidden"
         /\ UNCHANGED <<tasks, responses, deposits, serviceFeeBps, balanceOf, backendTasks>>
    ]_vars

\* the checks that precede the comparison of owner and worker pass
EarlierChecksPass(op, req) ==
  CASE op = "fundTask" ->
         /\ SignatureVerifies(op, req)
         /\ TaskOf(op, req).status \notin {"finished", "closed"}
    [] op = "cancelTask" ->
         /\ SignatureVerifies(op, req)
         /\ TaskOf(op, req).token # NONE
         /\ TaskOf(op, req).price # ZeroPrice
    [] op = "decideOnResponse" ->
         /\ TaskOf(op, req).token # NONE
         /\ TaskOf(op, req).price # ZeroPrice
    [] op = "settleTask" ->
         /\ verifyDetachedSignature(req.workerAddress, taskSettleSignaturePayload(req),
                                    req.signature)
         /\ responses[req.responseId].task_id = req.taskId
    [] OTHER -> FALSE

\* where a handler stands once its owner and worker comparisons have passed
PastOwnerCheck ==
  {"fund_deposit", "cancel_close", "decide_write_response", "settle_task"}

\* the operation whose handler stands at pc, for pc in PastOwnerCheck
OpPast(pc) ==
  CASE pc = "fund_deposit" -> "fundTask"
    [] pc = "cancel_close" -> "cancelTask"
    [] pc = "decide_write_response" -> "decideOnResponse"
    [] pc = "settle_task" -> "settleTask"
    [] OTHER -> NULL

\* C19: a fundTask, cancelTask or decideOnResponse call whose ownerAddress
\* differs from the stored owner, and a decideOnResponse or settleTask call
\* whose workerAddress differs from the stored worker, never gets past its
\* checks: it is refused with an error code and changes nothing, a fundTask
\* so refused has read no ledger entry, and the code is forbidden whenever
\* the checks that come before the comparison pass (for fundTask: signature
\* valid, task neither finished nor closed; for cancelTask: signature valid,
\* task funded; for decideOnResponse: response pending, task funded; for
\* settleTask: signature valid, response of that task).
OnlyOwnerAndWorker ==
  [][ /\ (last.op = NULL /\ last'.op # NULL
          /\ (OwnerMismatch(last'.op, last'.req) \/ WorkerMismatch(last'.op, last'.req)))
         => /\ last'.result \in RejectionCodes
            /\ EarlierChecksPass(last'.op, last'.req) => last'.result = "forbidden"
            /\ last'.op = "fundTask" => last'.onChain = EmptyDeposit
            /\ UNCHANGED <<tasks, responses, deposits, serviceFeeBps, balanceOf, backendTasks>>
      /\ \A p \in Procs :
           (proc'[p].pc # proc[p].pc /\ proc'[p].pc \in PastOwnerCheck)
           => /\ ~OwnerMismatch(OpPast(proc'[p].pc), proc'[p].req)
              /\ ~WorkerMismatch(OpPast(proc'[p].pc), proc'[p].req)
    ]_vars

\* a fundTask by another account than the owner was refused with forbidden
\* while the ledger held an entry for the task's key
FundForbiddenForStranger ==
  /\ last.op = "fundTask"
  /\ last.result = "forbidden"
  /\ normalizeAddress(last.req.ownerAddress) # tasks[last.req.taskId].owner
  /\ deposits[taskDepositKey(last.req.taskId)].owner # ZERO_ADDRESS
  /\ last.onChain = EmptyDeposit

\* a withdraw or settle on key k returns in this step
ReleaseCall(k) ==
  /\ last.op = NULL
  /\ last'.op \in {"withdraw", "settle"}
  /\ last'.req.key = k

\* C20: per deposit key the released flag goes from false to true at most
\* once and never back; it changes only in a successful withdraw or settle
\* on that key, which emits exactly one event, DepositReleased with
\* settled=false for withdraw and settled=true for settle, and makes one
\* transfer of the locked amount; a withdraw or settle on a released key
\* reverts with DepositAlreadyReleased, whatever sender, recipient and
\* signature it is given, transfers nothing and changes no entry.
ReleasedAtMostOnce ==
  [][ \A k \in EscrowKeys :
        /\ deposits[k].released => deposits'[k] = deposits[k]
        /\ (~deposits[k].released /\ deposits'[k].released)
           => ReleaseCall(k) /\ last'.result = "ok"
        /\ (ReleaseCall(k) /\ last'.result = "ok")
           => /\ ~deposits[k].released
              /\ deposits'[k] = [deposits[k] EXCEPT !.released = TRUE]
              /\ \A j \in EscrowKeys \ {k} : deposits'[j] = deposits[j]
              /\ last'.events =
                   <<DepositReleased(k, deposits[k].owner,
                                     IF last'.op = "settle" THEN last'.req.recipient
                                     ELSE deposits[k].owner,
                                     deposits[k].amountLocked, last'.op = "settle")>>
              /\ Len(last'.transfers) = 1
              /\ last'.transfers[1].amount = deposits[k].amountLocked
        /\ (ReleaseCall(k) /\ deposits[k].released)
           => /\ last'.result = "DepositAlreadyReleased"
              /\ last'.events = << >>
              /\ last'.transfers = << >>
              /\ deposits' = deposits
    ]_vars

\* the owner of a released entry called withdraw again with the signature of
\* the administrative signer over that entry, and the call reverted
SecondWithdrawReverted ==
  /\ last.op = "withdraw"
  /\ last.result = "DepositAlreadyReleased"
  /\ deposits[last.req.key].released
  /\ last.req.sender = deposits[last.req.key].owner
  /\ recover(withdrawDigest(last.req.key, last.onChain.owner, last.onChain.token,
                            last.onChain.amountLocked), last.req.signature) = AdminSigner

\* the entry of key exists, is unreleased, and signature is one of the
\* administrative signer over the WITHDRAW digest of the entry
WithdrawSigned(key, signature) ==
  LET entry == deposits[key]
  IN /\ entry.owner # ZERO_ADDRESS
     /\ ~entry.released
     /\ recover(withdrawDigest(key, entry.owner, entry.token, entry.amountLocked),
                signature) = AdminSigner

\* the outcome of a withdraw that returns in this step: released says whether
\* it releases the full locked amount of its key to the owner of the entry
WithdrawOutcome(released) ==
  LET key == last'.req.key
      entry == deposits[key]
  IN IF released
     THEN /\ last'.result = "ok"
          /\ deposits' = [deposits EXCEPT ![key].released = TRUE]
          /\ last'.transfers =
               <<Transfer(entry.token, ContractAddress, entry.owner, entry.amountLocked)>>
     ELSE /\ last'.result # "ok"
          /\ deposits' = deposits
          /\ last'.transfers = << >>

\* C21 as stated: withdraw releases the full locked amount to the owner of
\* the entry if and only if the entry exists, is unreleased and the WITHDRAW
\* digest recovers from the signature to the administrative signer.
WithdrawIffAdminSigned ==
  [][ (last.op = NULL /\ last'.op = "withdraw")
      => WithdrawOutcome(WithdrawSigned(last'.req.key, last'.req.signature)) ]_vars

\* C21: withdraw releases the full locked amount to the owner of the entry if
\* and only if the entry exists, is unreleased, the caller is the owner of the
\* entry and the WITHDRAW digest of (contract, key, owner, token,
\* amountLocked) recovers from the signature to the administrative signer; a
\* signature made by any other account, the owner included, releases nothing.
WithdrawIffOwnerCallsAdminSigned ==
  [][ (last.op = NULL /\ last'.op = "withdraw")
      => /\ WithdrawOutcome(/\ WithdrawSigned(last'.req.key, last'.req.signature)
                            /\ last'.req.sender = deposits[last'.req.key].owner)
         /\ SignerOf(last'.req.signature) # AdminSigner => last'.result # "ok"
         /\ (/\ WithdrawSigned(last'.req.key, last'.req.signature)
             /\ last'.req.sender # deposits[last'.req.key].owner)
            => last'.result = "unauthorized"
    ]_vars

\* the owner of an entry has just withdrawn its locked amount
WithdrawnByOwner ==
  /\ last.op = "withdraw"
  /\ last.result = "ok"
  /\ last.req.sender = last.onChain.owner
  /\ SignerOf(last.req.signature) = AdminSigner
  /\ deposits[last.req.key].released
  /\ last.transfers[1].to = last.onChain.owner
  /\ last.transfers[1].amount = last.onChain.amountLocked

\* the entry of key exists, is unreleased, and signature is one of the owner
\* of the entry over the SETTLE digest of the entry for recipient
SettleSigned(key, recipient, signature) ==
  LET entry == deposits[key]
  IN /\ entry.owner # ZERO_ADDRESS
     /\ ~entry.released
     /\ recover(settleDigest(key, entry.owner, entry.token, recipient, entry.amountLocked),
                signature) = entry.owner

\* the outcome of a settle that returns in this step: released says whether
\* it releases the full locked amount of its key to the recipient it names
SettleOutcome(released) ==
  LET key == last'.req.key
      entry == deposits[key]
  IN IF released
     THEN /\ last'.result = "ok"
          /\ deposits' = [deposits EXCEPT ![key].released = TRUE]
          /\ last'.transfers =
               <<Transfer(entry.token, ContractAddress, last'.req.recipient,
                          entry.amountLocked)>>
     ELSE /\ last'.result # "ok"
          /\ deposits' = deposits
          /\ last'.transfers = << >>

\* C22 as stated: settle releases the full locked amount to the recipient if
\* and only if the entry exists, is unreleased and the SETTLE digest recovers
\* from the signature to the owner of the entry, whoever calls.
SettleIffOwnerSigned ==
  [][ (last.op = NULL /\ last'.op = "settle")
      => SettleOutcome(SettleSigned(last'.req.key, last'.req.recipient,
                                    last'.req.signature)) ]_vars

\* C22: settle releases the full locked amount to the recipient, and to
\* nobody else, if and only if the entry exists, is unreleased, the recipient
\* is not the zero address and the SETTLE digest of (contract, key, owner,
\* token, recipient, amountLocked) recovers from the signature to the owner
\* of the entry; the caller may be any account.
SettleIffOwnerSignedForRecipient ==
  [][ (last.op = NULL /\ last'.op = "settle")
      => /\ SettleOutcome(/\ SettleSigned(last'.req.key, last'.req.recipient,
                                         last'.req.signature)
                          /\ last'.req.recipient # ZERO_ADDRESS)
         /\ (/\ SettleSigned(last'.req.key, last'.req.recipient, last'.req.signature)
             /\ last'.req.recipient = ZERO_ADDRESS)
            => last'.result = "recipient zero"
    ]_vars

\* an account that is neither the owner nor the recipient has just settled an
\* entry, and the locked amount went to the recipient
SettledByStranger ==
  /\ last.op = "settle"
  /\ last.result = "ok"
  /\ last.req.sender # last.onChain.owner
  /\ last.req.sender # last.req.recipient
  /\ deposits[last.req.key].released
  /\ Len(last.transfers) = 1
  /\ last.transfers[1].to = last.req.recipient
  /\ last.transfers[1].amount = last.onChain.amountLocked

\* C23: a deposit that succeeds takes the amount from the caller, records
\* amountLocked > 0 and pays the rest, the fee, to the fee recipient, where
\* the fee is amount * serviceFeeBps / 10000 rounded down (nothing is paid
\* when the fee is 0) and fee + amountLocked = amount; 100 units at 500 bps
\* lock 95 and pay 5.
DepositLocksAmountLessFee ==
  [][ (last.op = NULL /\ last'.op = "deposit" /\ last'.result = "ok")
      => LET req == last'.req
             locked == deposits'[req.key].amountLocked
             fee == req.amount - locked
         IN /\ locked > 0
            /\ fee >= 0
            /\ fee * BPS_DENOMINATOR <= req.amount * serviceFeeBps
            /\ req.amount * serviceFeeBps < (fee + 1) * BPS_DENOMINATOR
            /\ last'.transfers[1] =
                 Transfer(req.token, req.sender, ContractAddress, req.amount)
            /\ IF fee > 0
               THEN /\ Len(last'.transfers) = 2
                    /\ last'.transfers[2] =
                         Transfer(req.token, ContractAddress, FeeRecipient, fee)
               ELSE Len(last'.transfers) = 1
            /\ last'.events =
                 <<DepositRegistered(req.key, req.sender, req.token, locked, fee)>>
            /\ (req.amount = 100 /\ serviceFeeBps = 500) => (locked = 95 /\ fee = 5)
    ]_vars

\* a deposit of 100 units has just locked 95 and paid 5 to the fee recipient
DepositOfHundred ==
  /\ last.op = "deposit"
  /\ last.result = "ok"
  /\ last.req.amount = 100
  /\ deposits[last.req.key].amountLocked = 95
  /\ Len(last.transfers) = 2
  /\ last.transfers[2].to = FeeRecipient
  /\ last.transfers[2].amount = 5

\* C24: an entry is created once: a deposit to a key that has an entry,
\* released or not, reverts with DepositAlreadyExists and moves no token; an
\* entry comes into being only through a successful deposit to its key; the
\* owner, token and amountLocked of an entry never change, and its released
\* flag only goes from false to true.
EntryCreatedOnce ==
  [][ \A k \in EscrowKeys :
        /\ deposits[k].owner # ZERO_ADDRESS
           => /\ deposits'[k].owner = deposits[k].owner
              /\ deposits'[k].token = deposits[k].token
              /\ deposits'[k].amountLocked = deposits[k].amountLocked
              /\ deposits[k].released => deposits'[k].released
        /\ (deposits[k].owner = ZERO_ADDRESS /\ deposits'[k] # deposits[k])
           => /\ last'.op = "deposit"
              /\ last'.result = "ok"
              /\ last'.req.key = k
              /\ deposits'[k] = [owner |-> last'.req.sender, token |-> last'.req.token,
                                 amountLocked |-> deposits'[k].amountLocked,
                                 released |-> FALSE]
        /\ (last.op = NULL /\ last'.op = "deposit" /\ last'.req.key = k
            /\ deposits[k].owner # ZERO_ADDRESS)
           => /\ last'.result = "DepositAlreadyExists"
              /\ last'.transfers = << >>
              /\ last'.events = << >>
              /\ deposits' = deposits
    ]_vars

\* a deposit to the key of a released entry has just reverted
DepositOverReleasedReverted ==
  /\ last.op = "deposit"
  /\ last.result = "DepositAlreadyExists"
  /\ last.req.amount > 0
  /\ last.req.token # ZERO_ADDRESS
  /\ deposits[last.req.key].released

\* C25: the off-chain builders make the pre-images the escrow makes: for
\* every key, owner, token, worker and amount, in any spelling of the
\* addresses, the hash signed off-chain over buildWithdrawDataHash is the
\* escrow's WITHDRAW digest of the same values and the one over
\* buildSettleDataHash is its SETTLE digest, field by field in the same
\* order, so the escrow recovers the signing account from the signature.
OffChainDigestsAgree ==
  [][ /\ last'.op = "signWithdrawAuthorization"
         => LET r == last'.req
                digest == withdrawDigest(r.key, normalizeAddress(r.sender),
                                         normalizeAddress(r.token), r.amount)
            IN /\ toEthSignedMessageHash(
                    buildWithdrawDataHash(r.contract, r.key, r.sender, r.token, r.amount))
                  = digest
               /\ SignedBy(r.signature) = digest
               /\ recover(digest, r.signature) = AdminSigner
      /\ last'.op = "createSettlementSignature"
         => LET r == last'.req
                digest == settleDigest(r.key, normalizeAddress(r.sender),
                                       normalizeAddress(r.token),
                                       normalizeAddress(r.recipient), r.amount)
            IN /\ toEthSignedMessageHash(
                    buildSettleDataHash(r.contract, r.key, r.sender, r.token, r.recipient,
                                        r.amount))
                  = digest
               /\ SignedBy(r.signature) = digest
               /\ recover(digest, r.signature) = r.sender
    ]_vars

\* a settle authorization was issued from lower-case spellings of the
\* contract, token and worker addresses, and the escrow's digest for the
\* checksum forms recovers the owner from it
SettleAuthorizationIssued ==
  /\ last.op = "createSettlementSignature"
  /\ last.req.contract = "0xcc"
  /\ last.req.token = "0xt1"
  /\ last.req.recipient = "0xb"
  /\ recover(settleDigest(last.req.key, last.req.sender, "0xT1", "0xB", last.req.amount),
             last.req.signature) = last.req.sender

\* what an authorization was issued for: the fields of its pre-image
SignedTag(signature) == SignedBy(signature)[2][1]
SignedContract(signature) == SignedBy(signature)[2][2]
SignedKey(signature) == SignedBy(signature)[2][3]
SignedOwner(signature) == SignedBy(signature)[2][4]
SignedToken(signature) == SignedBy(signature)[2][5]
SignedRecipient(signature) ==
  IF SignedTag(signature) = "SETTLE" THEN SignedBy(signature)[2][6] ELSE ZERO_ADDRESS
SignedAmount(signature) ==
  IF SignedTag(signature) = "SETTLE" THEN SignedBy(signature)[2][7]
  ELSE SignedBy(signature)[2][6]

\* the authorization was issued for this action on this entry of this escrow
IssuedFor(signature, tag, key, entry) ==
  /\ SignedTag(signature) = tag
  /\ SignedContract(signature) = ContractAddress
  /\ SignedKey(signature) = key
  /\ SignedOwner(signature) = entry.owner
  /\ SignedToken(signature) = entry.token
  /\ SignedAmount(signature) = entry.amountLocked

\* a withdraw or settle that returns in this step got as far as its test of
\* the signature
ReachesSignatureTest ==
  LET entry == deposits[last'.req.key]
  IN /\ last.op = NULL
     /\ last'.op \in {"withdraw", "settle"}
     /\ entry.owner # ZERO_ADDRESS
     /\ ~entry.released
     /\ last'.op = "withdraw" => last'.req.sender = entry.owner
     /\ last'.op = "settle" => last'.req.recipient # ZERO_ADDRESS

\* C26: an authorization is good for one action on one entry of one escrow
\* and, for settle, one recipient: a withdraw or settle that reaches its
\* signature test succeeds exactly when the signature was issued by the right
\* signer for that action, this escrow, the key, owner, token and amount of
\* the entry and (settle) the recipient named in the call, and otherwise
\* reverts with InvalidSignature and pays nobody; a settle never pays another
\* recipient than the one its signature names.
NoReplay ==
  [][ ReachesSignatureTest
      => LET req == last'.req
             entry == deposits[req.key]
             sig == req.signature
             good == IF last'.op = "withdraw"
                     THEN /\ IssuedFor(sig, "WITHDRAW", req.key, entry)
                          /\ SignerOf(sig) = AdminSigner
                     ELSE /\ IssuedFor(sig, "SETTLE", req.key, entry)
                          /\ SignedRecipient(sig) = req.recipient
                          /\ SignerOf(sig) = entry.owner
         IN /\ last'.result = IF good THEN "ok" ELSE "InvalidSignature"
            /\ ~good => (last'.transfers = << >> /\ deposits' = deposits)
            /\ (good /\ last'.op = "settle")
               => last'.transfers[1].to = SignedRecipient(sig)
    ]_vars

\* the owner's settle authorization for one recipient was handed to settle
\* for another recipient, and the call reverted
SettleReplayRefused ==
  /\ last.op = "settle"
  /\ last.result = "InvalidSignature"
  /\ SignerOf(last.req.signature) = last.onChain.owner
  /\ IssuedFor(last.req.signature, "SETTLE", last.req.key, last.onChain)
  /\ SignedRecipient(last.req.signature) # last.req.recipient
  /\ last.req.recipient # ZERO_ADDRESS

\* C27 as stated: whatever the order in which the keys of a map were
\* inserted, at the top of the payload or nested in a map or an array,
\* canonicalStringify gives the same text.
CanonicalOrderIndependent ==
  [][ last'.op = "canonicalStringify"
      => last'.req.canonical = last'.req.canonicalReordered ]_vars

\* the kind the specification gives for each operation
KindOf(op) ==
  CASE op = "createTask" -> "task:create"
    [] op = "fundTask" -> "task:fund"
    [] op = "submitResponse" -> "task:response"
    [] op = "decideOnResponse" -> "task:decision"
    [] op = "cancelTask" -> "task:cancel"
    [] op = "settleTask" -> "task:settle"
    [] op = "queryTaskResponses" -> "task:response:query"
    [] op = "queryWorkerResponses" -> "worker:response:query"

\* C28: the message of every operation carries the kind of that operation,
\* the kinds of two operations differ, so the message one operation verifies
\* for a body is never the message another operation verifies for the same
\* body, and a signature made for one operation is refused by every other.
KindSeparatesOperations ==
  [][ last'.op \in Operations
      => /\ last'.req.message.kind = KindOf(last'.op)
         /\ last'.req.signedFor # last'.op
            => /\ last'.req.message.kind # last'.req.signedMessage.kind
               /\ last'.req.message # last'.req.signedMessage
               /\ last'.result = "unauthorized" ]_vars

\* C28 witness: the owner's signature for funding is sent to cancelTask with
\* the same task id and owner, and is refused
FundSignatureRefusedByCancel ==
  /\ last.op = "cancelTask"
  /\ last.req.signedFor = "fundTask"
  /\ last.req.signer = last.req.input.ownerAddress
  /\ last.result = "unauthorized"

\* a step of settleTask: the handler is called, reads the task row, or returns
SettleTaskStep ==
  \/ last'.op = "settleTask"
  \/ \E p \in Procs : proc[p].pc # "settle_task" /\ proc'[p].pc = "settle_task"

\* the response settleTask read is one it can answer for: it exists, belongs
\* to the task of the request and has the caller as its worker
SettleResponseOfCaller(call) ==
  /\ ~IsNull(call.response)
  /\ call.response.task_id = call.req.taskId
  /\ call.response.worker = normalizeAddress(call.req.workerAddress)

\* C29 as stated: whenever the response that settleTask read is not approved
\* or has no stored settlement signature, the call fails with conflict.
SettleConflictWhenUnapproved ==
  [][ /\ last'.op = "settleTask"
      /\ ~IsNull(last'.response)
      /\ \/ last'.response.status # "approved"
         \/ last'.response.settlement_signature = NONE
      => last'.result = "conflict" ]_vars

\* C29 amended: no step of settleTask changes a task or response record; it
\* returns the task with the stored settlement signature only when the
\* response exists, belongs to the given task, has the caller as its worker,
\* is approved and has a settlement signature; and when the response exists,
\* belongs to the task and to the caller but is not approved or has no
\* signature, the call fails with conflict.
SettleReadsOnly ==
  [][ /\ SettleTaskStep => tasks' = tasks /\ responses' = responses
      /\ last'.op = "settleTask" /\ last'.result = "ok"
         => /\ SettleResponseOfCaller(last')
            /\ last'.response.status = "approved"
            /\ last'.response.settlement_signature # NONE
            /\ ~IsNull(last'.task)
            /\ last'.task.id = last'.req.taskId
      /\ /\ last'.op = "settleTask"
         /\ SettleResponseOfCaller(last')
         /\ \/ last'.response.status # "approved"
            \/ last'.response.settlement_signature = NONE
         => last'.result = "conflict" ]_vars

\* C29 witness: the worker of an approved response is handed the task and
\* the settlement signature stored with the response
SettlementHandedOut ==
  /\ last.op = "settleTask"
  /\ last.result = "ok"
  /\ last.response.status = "approved"
  /\ last.response.settlement_signature # NONE
  /\ last.response.worker = normalizeAddress(last.req.workerAddress)

ApprovedOf(taskId) ==
  { r \in DOMAIN responses :
      responses[r].task_id = taskId /\ responses[r].status = "approved" }

\* C30 as stated: whatever decisions were made on the responses of a task,
\* in sequence or interleaved, at most one of them is approved.
AtMostOneApproved ==
  \A t \in TaskIds : Cardinality(ApprovedOf(t)) <= 1

\* C31 as stated: in every state no task has both a stored withdraw signature
\* and an approved response.
WithdrawOrSettlementNotBoth ==
  \A t \in TaskIds :
    ~(~IsNull(tasks[t]) /\ tasks[t].withdraw_signature # NONE /\ ApprovedOf(t) # {})

\* C32 as stated: in every state, the states between the two writes of a
\* cancelTask call included, a task is closed if and only if it has a
\* withdraw signature.
ClosedIffWithdrawSignature ==
  \A t \in TaskIds :
    ~IsNull(tasks[t]) => (tasks[t].status = "closed" <=> tasks[t].withdraw_signature # NONE)

InsertedUnderActiveTask ==
  [][ \A r \in RespIds :
        (IsNull(responses[r]) /\ ~IsNull(responses'[r]))
        => tasks[responses'[r].task_id].status = "active" ]_vars

RECURSIVE LockedSum(_, _)
LockedSum(keys, token) ==
  IF keys = {} THEN 0
  ELSE LET k == CHOOSE x \in keys : TRUE
       IN (IF deposits[k].token = token /\ ~deposits[k].released
           THEN deposits[k].amountLocked ELSE 0)
          + LockedSum(keys \ {k}, token)

DocumentedLifecycle ==
  { <<"open", "accepted", "postAccept">>, <<"accepted", "completed", "postComplete">>,
    <<"completed", "verified", "postVerify">>, <<"completed", "open", "postVerify">>,
    <<"open", "cancelled", "deleteTask">> }

\* C37 as stated: the status of a task of the bearer-token backend changes
\* only along open->accepted by accept, accepted->completed by complete,
\* completed->verified by an approving verify, completed->open by a rejecting
\* verify and open->cancelled by cancel; verified and cancelled are terminal;
\* accept on a task that is not open, complete on one that is not accepted
\* and verify on one that is not completed answer 409 and change nothing.
LifecycleAsDocumented ==
  [][ \A id \in BackendTaskIds :
        LET before == backendTasks[id]
            after == backendTasks'[id]
        IN /\ (before # NoRow /\ after.status # before.status)
              => /\ <<before.status, after.status, last'.op>> \in DocumentedLifecycle
                 /\ after.status = "verified" => last'.req.body = "true"
                 /\ (before.status = "completed" /\ after.status = "open")
                    => last'.req.body = "false"
           /\ (/\ before # NoRow
               /\ last'.op \in {"postAccept", "postComplete", "postVerify"}
               /\ last'.req.id = id
               /\ \/ last'.op = "postAccept" /\ before.status # "open"
                  \/ last'.op = "postComplete" /\ before.status # "accepted"
                  \/ last'.op = "postVerify" /\ before.status # "completed")
              => last'.result = "409" /\ after = before ]_vars

\* the columns that a worker fills in are all NULL
NoWorker(row) ==
  /\ row.workerAddress = NULL
  /\ row.workerAgentId = NULL
  /\ row.acceptedAt = NULL
  /\ row.completedAt = NULL
  /\ row.completionProof = NULL

BackendOps == {"postTask", "postAccept", "postComplete", "postVerify", "deleteTask"}

\* C38: a rejecting verify that goes through sets the status to open and
\* clears workerAddress, workerAgentId, acceptedAt, completedAt and
\* completionProof; in every state an open task has none of them; and an
\* accept of an open task by an agent other than the poster, with a worker
\* address, goes through.
RejectionReopens ==
  /\ [](\A id \in BackendTaskIds :
          backendTasks[id].status = "open" => NoWorker(backendTasks[id]))
  /\ [][ /\ (last'.op = "postVerify" /\ last'.result = "200" /\ last'.req.body = "false")
            => /\ backendTasks'[last'.req.id].status = "open"
               /\ NoWorker(backendTasks'[last'.req.id])
         /\ (/\ last'.op = "postAccept"
             /\ backendTasks[last'.req.id].status = "open"
             /\ backendTasks[last'.req.id].posterAgentId # last'.req.agent
             /\ last'.req.body # NULL)
            => /\ last'.result = "200"
               /\ backendTasks'[last'.req.id].status = "accepted"
               /\ backendTasks'[last'.req.id].workerAgentId = last'.req.agent ]_vars

\* C38 witness: the poster has rejected the work of a worker and the task
\* is open again without a worker
ReopenedByRejection ==
  /\ last.op = "postVerify"
  /\ last.result = "200"
  /\ last.req.body = "false"
  /\ backendTasks[last.req.id].status = "open"
  /\ NoWorker(backendTasks[last.req.id])

\* C39 as stated: an accept by the poster answers 409, a complete by an
\* agent that is not the recorded worker answers 403, a verify or cancel by
\* an agent that is not the poster answers 403, and none of them changes the
\* task.
WrongRoleIs403 ==
  [][ (last'.op \in BackendOps /\ backendTasks[last'.req.id] # NoRow)
      => LET row == backendTasks[last'.req.id]
             agent == last'.req.agent
         IN /\ (last'.op = "postAccept" /\ row.posterAgentId = agent)
               => last'.result = "409" /\ backendTasks' = backendTasks
            /\ (last'.op = "postComplete" /\ row.workerAgentId # agent)
               => last'.result = "403" /\ backendTasks' = backendTasks
            /\ (last'.op \in {"postVerify", "deleteTask"} /\ row.posterAgentId # agent)
               => last'.result = "403" /\ backendTasks' = backendTasks ]_vars

\* C39 amended: the worker of a task is never its poster; an accept by the
\* poster answers 409; a complete by another agent than the recorded worker
\* answers 403 on an accepted task and 409 otherwise; a verify by another
\* agent than the poster answers 403 on a completed task and 409 otherwise;
\* a cancel by another agent than the poster answers 403; and a call that is
\* answered 403 or 409 changes no task.
RolesEnforced ==
  /\ [](\A id \in BackendTaskIds :
          backendTasks[id].workerAgentId # NULL
          => backendTasks[id].workerAgentId # backendTasks[id].posterAgentId)
  /\ [][ (last'.op \in BackendOps /\ backendTasks[last'.req.id] # NoRow)
         => LET row == backendTasks[last'.req.id]
                agent == last'.req.agent
            IN /\ (last'.op = "postAccept" /\ row.posterAgentId = agent)
                  => last'.result = "409"
               /\ (last'.op = "postComplete" /\ row.workerAgentId # agent)
                  => last'.result = IF row.status = "accepted" THEN "403" ELSE "409"
               /\ (last'.op = "postVerify" /\ row.posterAgentId # agent)
                  => last'.result = IF row.status = "completed" THEN "403" ELSE "409"
               /\ (last'.op = "deleteTask" /\ row.posterAgentId # agent)
                  => last'.result = "403"
               /\ last'.result \in {"403", "409"} => backendTasks' = backendTasks ]_vars

\* C39 witness: an agent that is neither poster nor worker tries to complete
\* an accepted task and is answered 403
CompleteByStranger ==
  /\ last.op = "postComplete"
  /\ last.result = "403"
  /\ backendTasks[last.req.id].status = "accepted"
  /\ last.req.agent # backendTasks[last.req.id].posterAgentId
  /\ last.req.agent # backendTasks[last.req.id].workerAgentId

====
